---- MODULE Spec2Model ----
(***************************************************************************)
(* A model of the smart-fetch request pipeline: SmartFetch.request and     *)
(* SmartFetch.executeRequest (src/src/core/SmartFetch.ts), the cache       *)
(* adapters (src/src/errors/index.ts, lines 83-333), the offline queue     *)
(* (src/unnamed/part_007) and the helpers of src/src/utils/index.ts.       *)
(*                                                                         *)
(* JavaScript runs one task at a time; an async function runs without      *)
(* interruption up to its next await.  Every action below is the code of   *)
(* one call between two awaits, so the interleavings of the model are the  *)
(* interleavings the event loop can produce.                               *)
(***************************************************************************)
EXTENDS Integers, Sequences, FiniteSets, TLC

\* ------------------------------------------------------------------ bounds
NCalls == 2          \* call slots: logical calls that may be active at once
NUrls == 2           \* distinct request targets
MaxTime == 4         \* the clock Date.now() runs over 0..MaxTime
MaxRetries == 2      \* largest maxRetries a request is configured with
MaxEntries == 2      \* offline-queue entries created in one run
MaxFetches == 3      \* transport exchanges recorded for one queue entry
MaxRequests == 2     \* largest maxRequests a rate limiter is configured with
Period == 2          \* perMilliseconds of the rate limiters
MaxDbFailures == 1   \* failed deletes of one queue entry
NInstances == 2      \* SmartFetch instances on one offline-queue store

Calls == 1..NCalls
Urls == 1..NUrls
Data == {1, 2}       \* payloads the transport may answer with

VARIABLES
    online,          \* navigator.onLine
    now,             \* Date.now()
    client,          \* SmartFetch.config, the client-level defaults
    pc,              \* where each call is suspended
    cfg,             \* processedConfig of each call
    retryCount,      \* the retryCount argument of the running executeRequest
    wakeAt,          \* deadline of the timer a call sleeps on
    cacheRead,       \* what cacheManager.get answered to each call's checkCache
    joinedTo,        \* the call whose executeRequest promise a call was handed
    reqPromise,      \* the promise executeRequest returned to each owner
    outcome,         \* what request() delivered to the caller
    pendingRequests, \* SmartFetch.pendingRequests: cache key -> promise
    cache,           \* MemoryCacheAdapter.cache: key -> CacheEntry
    rateLimiters,    \* SmartFetch.rateLimiters: url -> {tokens, lastRefill}
    queue,           \* the IndexedDB store of OfflineQueue, in key order
    nextId,          \* ids handed out by generateId, in order
    isProcessing,    \* OfflineQueue.isProcessing
    drain,           \* the running OfflineQueue.processQueue, if any
    runners,         \* the running SmartFetch.processOfflineQueue calls
    instances,       \* per client instance: its OfflineQueue's flag and drain, its replays
    replayOf,        \* the runner and queue entry a call replays (0: a user call)
    fetchCount,      \* history: transport exchanges each call started
    netFails,        \* history: network failures each call saw
    lastReply,       \* history: how the last attempt of each call ended
    hookLog,         \* history: the hooks and exchanges of each call, in the order run
    lastStore,       \* history: the last response a caching request obtained, per key
    cacheSeen,       \* history: the unexpired stored response at a call's cache read
    passLog,         \* history: per target and time, the calls that passed checkRateLimit
    sent,            \* history: transport exchanges started for each queue entry
    drained,         \* history: drain cycles that ran while each queue entry was stored
    replayed         \* history: queue entries whose replay succeeded

vars == <<online, now, client, pc, cfg, retryCount, wakeAt, cacheRead, joinedTo, reqPromise,
          outcome, pendingRequests, cache, rateLimiters, queue, nextId,
          isProcessing, drain, runners, instances, replayOf, fetchCount, netFails, lastReply, hookLog, lastStore,
          cacheSeen, passLog, sent, drained, replayed>>

callVars == <<pc, cfg, retryCount, wakeAt, cacheRead, joinedTo, reqPromise, outcome,
              replayOf>>
queueVars == <<queue, nextId, isProcessing, drain, runners, instances>>
envVars == <<online, now, client>>
tableVars == <<pendingRequests, cache, rateLimiters>>
histVars == <<fetchCount, netFails, lastReply, hookLog, lastStore, cacheSeen, passLog, sent, drained, replayed>>

\* ------------------------------------------------------- JavaScript Map
MapHas(m, k) == k \in DOMAIN m
MapSet(m, k, v) == [x \in (DOMAIN m) \cup {k} |-> IF x = k THEN v ELSE m[x]]
MapDelete(m, k) == [x \in (DOMAIN m) \ {k} |-> m[x]]
EmptyMap == [x \in {} |-> 0]

\* ------------------------------------------------------- configurations
\* An optional field is a set: {} when the caller left it out, {v} otherwise.
NoCache == [on |-> FALSE, ttl |-> 0, strategy |-> "memory"]
Caching(t, backend) == [on |-> TRUE, ttl |-> t, strategy |-> backend]
NoRetry == [on |-> FALSE, maxRetries |-> 0, delay |-> 0, backoff |-> 0,
            maxDelay |-> 0, cond |-> "none", retryOn |-> {}]
NoRateLimit == [on |-> FALSE, maxRequests |-> 0, perMilliseconds |-> 0,
                queueRequests |-> FALSE]

DefaultClient == [cache |-> NoCache, retry |-> NoRetry, rateLimit |-> NoRateLimit,
                  offlineQueueEnabled |-> TRUE, mockMode |-> FALSE,
                  mockResponses |-> {}, middleware |-> <<>>,
                  requestInterceptors |-> <<>>, responseInterceptors |-> <<>>]

\* A registered middleware and a registered interceptor, with the handlers they
\* define (pre, post, error; onRequest or onResponse, and the error handler).
Middleware(name, pre, post, error) ==
    [name |-> name, pre |-> pre, post |-> post, error |-> error]
Interceptor(name, handles, handlesError) ==
    [name |-> name, handles |-> handles, handlesError |-> handlesError]

Names(hooks) == [i \in 1..Len(hooks) |-> hooks[i].name]

\* One chain run as the loops of the code run it: every hook is called with the
\* value the hook before it returned. A value is known by the hooks that made it.
Ran(names, stage, value) ==
    [i \in 1..Len(names) |->
        [hook |-> names[i], stage |-> stage, got |-> value \o SubSeq(names, 1, i - 1)]]

\* The value the last hook of a chain returned.
Returned(ran, value) == value \o [i \in 1..Len(ran) |-> ran[i].hook]

\* MiddlewareManager.executePre and executePost.
ExecutePre(value) ==
    Ran(Names(SelectSeq(client.middleware, LAMBDA m : m.pre)), "pre", value)
ExecutePost(value) ==
    Ran(Names(SelectSeq(client.middleware, LAMBDA m : m.post)), "post", value)

\* request(), lines 81-92: the pre-hooks, then the request interceptors.
PreProcess ==
    LET pre == ExecutePre(<<>>)
    IN  pre \o Ran(Names(SelectSeq(client.requestInterceptors, LAMBDA i : i.handles)),
                   "onRequest", Returned(pre, <<>>))

PostProcessHooksFirst ==
    LET post == ExecutePost(<<>>)
    IN  post \o Ran(Names(SelectSeq(client.responseInterceptors, LAMBDA i : i.handles)),
                    "onResponse", Returned(post, <<>>))

\* request(), lines 140-150: the response interceptors, then the post-hooks.
PostProcess ==
    LET resp == Ran(Names(SelectSeq(client.responseInterceptors, LAMBDA i : i.handles)),
                    "onResponse", <<>>)
    IN  resp \o ExecutePost(Returned(resp, <<>>))

\* The exchange, started with the configuration the hooks so far returned.
Exchange(log) ==
    [hook |-> "fetch", stage |-> "fetch",
     got |-> Returned(SelectSeq(log, LAMBDA e : e.stage # "fetch"), <<>>)]

\* A registered mock (addMock keys them by url); method "" is a mock without method.
MockConfig(u, method, response) == [url |-> u, method |-> method, response |-> response]

MockMatchesExactMethod(mock, config) ==
    mock.url = config.url /\ mock.method = config.method

\* getMockResponse, lines 472-479: urlMatch && methodMatch.
MockMatches(mock, config) ==
    mock.url = config.url /\ (mock.method = "" \/ mock.method = config.method)

\* request(), lines 94-100: mock mode is on and getMockResponse finds a mock.
MockFound(config) ==
    client.mockMode /\ \E mock \in client.mockResponses : MockMatches(mock, config)

Opt(field, default) == IF field = {} THEN default ELSE CHOOSE v \in field : TRUE

PlainRequest(u) == [url |-> u, method |-> "GET", params |-> 0, body |-> 0,
                    deduplicate |-> {}, offlineQueueable |-> {}, cache |-> {},
                    retry |-> {}, rateLimit |-> {}]

MergeRequestConfig(config) ==
    [url |-> config.url,
     method |-> config.method,
     params |-> config.params,
     body |-> config.body,
     deduplicate |-> Opt(config.deduplicate, TRUE),
     offlineQueueable |-> Opt(config.offlineQueueable, TRUE),
     cache |-> Opt(config.cache, client.cache),
     retry |-> Opt(config.retry, client.retry),
     rateLimit |-> Opt(config.rateLimit, client.rateLimit)]

NoConfig == [url |-> 0, method |-> "GET", params |-> 0, body |-> 0,
             deduplicate |-> TRUE, offlineQueueable |-> TRUE, cache |-> NoCache,
             retry |-> NoRetry, rateLimit |-> NoRateLimit]

\* parts.join('|'): the parts in order; params and body are the JSON texts.
GenerateCacheKey(config) ==
    <<config.method, config.url>>
        \o (IF config.params # 0 THEN <<config.params>> ELSE <<>>)
        \o (IF config.body # 0 /\ config.method # "GET" THEN <<config.body>> ELSE <<>>)

\* ------------------------------------------------------- results and errors
NoResult == [ok |-> FALSE, kind |-> "none", message |-> "", data |-> 0,
             cached |-> FALSE, retryCount |-> 0, hooked |-> 0, status |-> 0]
\* A response envelope; status 200 is that of checkCache and of getMockResponse,
\* an exchange puts the status of its reply in its place.
Response(d, n, fromCache) == [ok |-> TRUE, kind |-> "Response", message |-> "", data |-> d,
                              cached |-> fromCache, retryCount |-> n, hooked |-> 0,
                              status |-> 200]
Failure(k) == [ok |-> FALSE, kind |-> k, message |-> "", data |-> 0, cached |-> FALSE,
               retryCount |-> 0, hooked |-> 0, status |-> 0]

\* request(), line 126: the error of a request handed to the offline queue.
QueuedFailure ==
    [Failure("NetworkError") EXCEPT !.message = "Request queued for offline processing"]

NoPromise == [state |-> "none", value |-> NoResult]

\* ------------------------------------------------------- cache adapter
NoEntry == [data |-> 0, timestamp |-> 0, ttl |-> 0, present |-> FALSE]

\* response.status of a reply that passed validateStatus; a reply of the model
\* that names no status is a 200.
ReplyStatus(reply) == IF "status" \in DOMAIN reply THEN reply.status ELSE 200

\* History: the entry written by cacheResponse with the status of the response
\* it was written for.
Populated(entry, response) ==
    [data |-> entry.data, timestamp |-> entry.timestamp, ttl |-> entry.ttl,
     present |-> entry.present, status |-> response.status]
CacheEntry(d, t, life) == [data |-> d, timestamp |-> t, ttl |-> life, present |-> TRUE]

IsExpiredEarly(entry) ==
    IF entry.ttl = 0 THEN FALSE ELSE now - entry.timestamp >= entry.ttl

\* MemoryCacheAdapter.isExpired: an entry without ttl (or with ttl 0) never expires.
IsExpired(entry) ==
    IF entry.ttl = 0 THEN FALSE ELSE now - entry.timestamp > entry.ttl

\* MemoryCacheAdapter.get: the entry, or null for a missing or an expired one.
AdapterGet(k) ==
    IF ~MapHas(cache, k) THEN NoEntry
    ELSE IF IsExpired(cache[k]) THEN NoEntry
    ELSE cache[k]

\* The store after MemoryCacheAdapter.get: an expired entry is deleted by the read.
AdapterKeeps(k) == cache

\* MemoryCacheAdapter.get, lines 112-115: the read deletes the expired entry.
AdapterAfterGet(k) ==
    IF MapHas(cache, k) /\ IsExpired(cache[k]) THEN MapDelete(cache, k) ELSE cache

\* ------------------------------------------------------- retry engine
\* The error executeRequest's catch block holds: its class, its code, its name,
\* its message and its response field, which no constructor call of the code
\* ever sets.
RawError(cls, code) ==
    [cls |-> cls, code |-> code, name |-> cls, message |-> "", response |-> 0]

\* What fetch rejects with when its signal is aborted: controller.abort() is
\* called without a reason, by the timer of createAbortController as by
\* combineAbortSignals for the caller's signal.
DomAbortError ==
    [RawError("DOMException", 0) EXCEPT
        !.name = "AbortError", !.message = "The operation was aborted."]

\* error.message.includes('timeout'), over the messages of the model.
MessageHasTimeout(message) == message \in {"network timeout", "Request timeout"}

GetRetryConfig(config) ==
    IF ~config.retry.on /\ ~client.retry.on THEN NoRetry
    ELSE IF config.retry.on THEN config.retry ELSE client.retry

RetryCondition(cond, error) == cond = "all"

ShouldRetryOnceMore(error, n, rc) ==
    IF n > rc.maxRetries THEN FALSE
    ELSE IF rc.cond # "none" THEN RetryCondition(rc.cond, error)
    ELSE IF rc.retryOn # {} THEN error.response # 0 /\ error.response \in rc.retryOn
    ELSE \/ error.cls \in {"NetworkError", "TimeoutError"}
         \/ error.response >= 500

ShouldRetry(error, n, rc) ==
    IF n >= rc.maxRetries THEN FALSE
    ELSE IF rc.cond # "none" THEN RetryCondition(rc.cond, error)
    ELSE IF rc.retryOn # {} THEN error.response # 0 /\ error.response \in rc.retryOn
    ELSE \/ error.cls \in {"NetworkError", "TimeoutError"}
         \/ error.response >= 500

CalculateRetryDelayUncapped(n, rc) ==
    LET backoff == IF rc.backoff = 0 THEN 2 ELSE rc.backoff
    IN  rc.delay * backoff ^ n

CalculateRetryDelay(n, rc) ==
    LET backoff == IF rc.backoff = 0 THEN 2 ELSE rc.backoff
        delay == rc.delay * backoff ^ n
    IN  IF rc.maxDelay # 0 /\ rc.maxDelay < delay THEN rc.maxDelay ELSE delay

\* ------------------------------------------------------- rate limiter
NoBucket == [tokens |-> 0, lastRefill |-> 0]

\* checkRateLimit, lines 379-402: the bucket of the target, created full on first
\* use, after the refill for the whole intervals elapsed since lastRefill.
\* The refill that stamps the bucket on every check.
RefilledStamped(rl, u) ==
    LET limiter == IF MapHas(rateLimiters, u) THEN rateLimiters[u]
                   ELSE [tokens |-> rl.maxRequests, lastRefill |-> now]
        refills == (now - limiter.lastRefill) \div rl.perMilliseconds
    IN  [tokens |-> IF limiter.tokens + refills * rl.maxRequests < rl.maxRequests
                    THEN limiter.tokens + refills * rl.maxRequests
                    ELSE rl.maxRequests,
         lastRefill |-> now]

\* The refill without its cap.
RefilledUncapped(rl, u) ==
    LET limiter == IF MapHas(rateLimiters, u) THEN rateLimiters[u]
                   ELSE [tokens |-> rl.maxRequests, lastRefill |-> now]
        refills == (now - limiter.lastRefill) \div rl.perMilliseconds
    IN  IF refills > 0
        THEN [tokens |-> limiter.tokens + refills * rl.maxRequests, lastRefill |-> now]
        ELSE limiter

Refilled(rl, u) ==
    LET limiter == IF MapHas(rateLimiters, u) THEN rateLimiters[u]
                   ELSE [tokens |-> rl.maxRequests, lastRefill |-> now]
        refills == (now - limiter.lastRefill) \div rl.perMilliseconds
    IN  IF refills > 0
        THEN [tokens |-> IF limiter.tokens + refills * rl.maxRequests < rl.maxRequests
                         THEN limiter.tokens + refills * rl.maxRequests
                         ELSE rl.maxRequests,
              lastRefill |-> now]
        ELSE limiter

WaitTimeWholePeriod(rl, limiter) == rl.perMilliseconds

WaitTimeElapsed(rl, limiter) == now - limiter.lastRefill

\* checkRateLimit, line 406.
WaitTime(rl, limiter) == rl.perMilliseconds - (now - limiter.lastRefill)

\* ------------------------------------------------------- request()
Idle(c) == pc[c] = "idle"
LowestIdle(c) == Idle(c) /\ \A d \in Calls : d < c => ~Idle(d)

NotReplay == [runner |-> 0, entry |-> 0]
NotSeen == [fresh |-> FALSE, data |-> 0]

\* The stored response is fresh while its age does not exceed its ttl.
FreshStore(k) ==
    IF MapHas(lastStore, k)
          /\ (lastStore[k].ttl = 0 \/ now - lastStore[k].timestamp <= lastStore[k].ttl)
    THEN [fresh |-> TRUE, data |-> lastStore[k].data]
    ELSE NotSeen

\* request(), lines 75-83: merge the configuration, call executePre, suspend.
Begin(c, config, runner, entry) ==
    /\ LowestIdle(c)
    /\ pc' = [pc EXCEPT ![c] = "pre"]
    /\ cfg' = [cfg EXCEPT ![c] = MergeRequestConfig(config)]
    /\ replayOf' = [replayOf EXCEPT ![c] = [runner |-> runner, entry |-> entry]]
    /\ UNCHANGED <<retryCount, wakeAt, cacheRead, joinedTo, reqPromise, outcome>>

\* request(), lines 83-104: pre-hooks and request interceptors have run; the
\* cache key is computed and checkCache called, whose read of the memory adapter
\* happens before its first suspension.
\* request(), lines 94-100, and getMockResponse, lines 480-486: the mock's
\* response is returned from inside the try block, nothing else is touched.
MockHit(c) ==
    /\ pc[c] = "pre"
    /\ MockFound(cfg[c])
    /\ \E mock \in client.mockResponses :
           /\ MockMatches(mock, cfg[c])
           /\ outcome' = [outcome EXCEPT ![c] = Response(mock.response, 0, FALSE)]
    /\ pc' = [pc EXCEPT ![c] = "done"]
    /\ hookLog' = [hookLog EXCEPT ![c] = @ \o PreProcess]
    /\ UNCHANGED <<envVars, cfg, retryCount, wakeAt, cacheRead, joinedTo, reqPromise,
                   replayOf, tableVars, queueVars, fetchCount, netFails, lastReply,
                   lastStore, cacheSeen, passLog, sent, drained, replayed>>

AfterPreHooks(c) ==
    /\ pc[c] = "pre"
    /\ ~MockFound(cfg[c])
    /\ LET k == GenerateCacheKey(cfg[c])
       IN  IF cfg[c].cache.on
           THEN /\ cacheRead' = [cacheRead EXCEPT ![c] = AdapterGet(k)]
                /\ cache' = AdapterAfterGet(k)
                /\ cacheSeen' = [cacheSeen EXCEPT ![c] = FreshStore(k)]
           ELSE /\ cacheRead' = [cacheRead EXCEPT ![c] = NoEntry]
                /\ UNCHANGED <<cache, cacheSeen>>
    /\ pc' = [pc EXCEPT ![c] = "cache"]
    /\ hookLog' = [hookLog EXCEPT ![c] = @ \o PreProcess]
    /\ UNCHANGED <<envVars, cfg, retryCount, wakeAt, joinedTo, reqPromise, outcome,
                   replayOf, pendingRequests, rateLimiters, queueVars, fetchCount,
                   netFails, lastReply, lastStore, passLog, sent, drained, replayed>>

\* request(), lines 81-92 and 158: a pre-hook or a request interceptor throws an
\* error of its own, which lands in the catch block of request() as it is.
HasPreHook ==
    \/ \E i \in 1..Len(client.middleware) : client.middleware[i].pre
    \/ \E i \in 1..Len(client.requestInterceptors) : client.requestInterceptors[i].handles

PreHookThrows(c) ==
    /\ pc[c] = "pre"
    /\ HasPreHook
    /\ outcome' = [outcome EXCEPT ![c] = Failure("Error")]
    /\ pc' = [pc EXCEPT ![c] = "failed"]
    /\ UNCHANGED <<envVars, cfg, retryCount, wakeAt, cacheRead, joinedTo, reqPromise,
                   replayOf, tableVars, queueVars, histVars>>

\* checkCache when the backend's storage throws on the read: the localStorage
\* and indexedDB adapters answer null (get, lines 149-165 and 224-240).
CacheReadFails(c) ==
    /\ pc[c] = "pre"
    /\ cfg[c].cache.on
    /\ cfg[c].cache.strategy \in {"localStorage", "indexedDB"}
    /\ cacheRead' = [cacheRead EXCEPT ![c] = NoEntry]
    /\ cacheSeen' = [cacheSeen EXCEPT ![c] = NotSeen]
    /\ pc' = [pc EXCEPT ![c] = "cache"]
    /\ hookLog' = [hookLog EXCEPT ![c] = @ \o PreProcess]
    /\ UNCHANGED <<envVars, cfg, retryCount, wakeAt, joinedTo, reqPromise, outcome,
                   replayOf, tableVars, queueVars, fetchCount, netFails, lastReply,
                   lastStore, passLog, sent, drained, replayed>>

\* request(), lines 105-108: a cache hit is returned at once.
CacheHitTakesToken(c) ==
    /\ pc[c] = "cache"
    /\ cacheRead[c].present
    /\ pc' = [pc EXCEPT ![c] = "done"]
    /\ outcome' = [outcome EXCEPT ![c] = Response(cacheRead[c].data, 0, TRUE)]
    /\ rateLimiters' = MapSet(rateLimiters, cfg[c].url,
                              [Refilled(client.rateLimit, cfg[c].url) EXCEPT !.tokens = @ - 1])
    /\ UNCHANGED <<envVars, cfg, retryCount, wakeAt, cacheRead, joinedTo, reqPromise,
                   replayOf, pendingRequests, cache, queueVars, histVars>>

CacheHit(c) ==
    /\ pc[c] = "cache"
    /\ cacheRead[c].present
    /\ pc' = [pc EXCEPT ![c] = "done"]
    /\ outcome' = [outcome EXCEPT ![c] = Response(cacheRead[c].data, 0, TRUE)]
    /\ UNCHANGED <<envVars, cfg, retryCount, wakeAt, cacheRead, joinedTo, reqPromise,
                   replayOf, tableVars, queueVars, histVars>>

DeduplicatesAlways(c) == TRUE

\* request(), lines 111, 134 and 153: processedConfig.deduplicate !== false.
Deduplicates(c) == cfg[c].deduplicate

\* request(), lines 110-117: a pending request under the same key is returned as
\* it is; the caller's promise follows it, outside the caller's try block.
DedupHit(c) ==
    /\ pc[c] = "cache"
    /\ ~cacheRead[c].present
    /\ Deduplicates(c)
    /\ MapHas(pendingRequests, GenerateCacheKey(cfg[c]))
    /\ LET found == pendingRequests[GenerateCacheKey(cfg[c])]
       IN  IF found.owner # 0
           THEN /\ joinedTo' = [joinedTo EXCEPT ![c] = found.owner]
                /\ UNCHANGED reqPromise
           ELSE /\ joinedTo' = [joinedTo EXCEPT ![c] = c]
                /\ reqPromise' = [reqPromise EXCEPT ![c] = found.promise]
    /\ pc' = [pc EXCEPT ![c] = "joined"]
    /\ UNCHANGED <<envVars, cfg, retryCount, wakeAt, cacheRead, outcome, replayOf,
                   tableVars, queueVars, histVars>>

NoDedupHit(c) ==
    /\ pc[c] = "cache"
    /\ ~cacheRead[c].present
    /\ ~(Deduplicates(c) /\ MapHas(pendingRequests, GenerateCacheKey(cfg[c])))

\* request(), line 120, and checkRateLimit up to its return, its throw or its
\* sleep: the code between the dedup check and the next suspension.
CheckRateLimit(c) ==
    /\ NoDedupHit(c)
    /\ LET rl == IF cfg[c].rateLimit.on THEN cfg[c].rateLimit ELSE client.rateLimit
           u == cfg[c].url
           limiter == Refilled(rl, u)
       IN  IF ~rl.on
           THEN /\ pc' = [pc EXCEPT ![c] = "rate"]
                /\ UNCHANGED <<rateLimiters, wakeAt, outcome, passLog>>
           ELSE IF limiter.tokens < 1
           THEN /\ rateLimiters' = MapSet(rateLimiters, u, limiter)
                /\ IF rl.queueRequests
                   THEN /\ pc' = [pc EXCEPT ![c] = "limited"]
                        /\ wakeAt' = [wakeAt EXCEPT ![c] = now + WaitTime(rl, limiter)]
                        /\ UNCHANGED outcome
                   ELSE /\ pc' = [pc EXCEPT ![c] = "failed"]
                        /\ outcome' = [outcome EXCEPT ![c] =
                               [Failure("RateLimitError") EXCEPT
                                    !.data = WaitTime(rl, limiter)]]
                        /\ UNCHANGED wakeAt
                /\ UNCHANGED passLog
           ELSE /\ rateLimiters' = MapSet(rateLimiters, u,
                                          [limiter EXCEPT !.tokens = @ - 1])
                /\ passLog' = [passLog EXCEPT ![u][now] = @ + 1]
                /\ pc' = [pc EXCEPT ![c] = "rate"]
                /\ UNCHANGED <<wakeAt, outcome>>
    /\ UNCHANGED <<envVars, cfg, retryCount, cacheRead, joinedTo, reqPromise, replayOf,
                   pendingRequests, cache, queueVars, fetchCount, netFails, lastReply, hookLog, lastStore,
                   cacheSeen, sent, drained, replayed>>

\* checkRateLimit, lines 409-417: the queued caller wakes, refills the bucket and
\* takes its token.
AfterLimitSleep(c) ==
    /\ pc[c] = "limited"
    /\ now >= wakeAt[c]
    /\ LET rl == IF cfg[c].rateLimit.on THEN cfg[c].rateLimit ELSE client.rateLimit
       IN  rateLimiters' = MapSet(rateLimiters, cfg[c].url,
                                  [tokens |-> rl.maxRequests - 1, lastRefill |-> now])
    /\ passLog' = [passLog EXCEPT ![cfg[c].url][now] = @ + 1]
    /\ pc' = [pc EXCEPT ![c] = "rate"]
    /\ UNCHANGED <<envVars, cfg, retryCount, wakeAt, cacheRead, joinedTo, reqPromise,
                   outcome, replayOf, pendingRequests, cache, queueVars, fetchCount,
                   netFails, lastReply, hookLog, lastStore, cacheSeen, sent, drained, replayed>>

\* executeRequest, lines 182-208: one transport exchange is started.
CountSent(c) ==
    IF replayOf[c].entry = 0 THEN sent
    ELSE [sent EXCEPT ![replayOf[c].entry] = IF @ < MaxFetches THEN @ + 1 ELSE @]

GoesToQueueAlways(c) == ~online /\ client.offlineQueueEnabled

GoesToQueueUnlessEnabled(c) ==
    ~online /\ cfg[c].offlineQueueable /\ ~client.offlineQueueEnabled

\* request(), lines 122-128: offline, queueable and the queue enabled, the request
\* is handed to OfflineQueue.enqueue.
GoesToQueue(c) ==
    ~online /\ cfg[c].offlineQueueable /\ client.offlineQueueEnabled

ToOfflineQueue(c) ==
    /\ pc[c] = "rate"
    /\ GoesToQueue(c)
    /\ nextId + Cardinality({d \in Calls : pc[d] = "enqueue"}) <= MaxEntries
    /\ pc' = [pc EXCEPT ![c] = "enqueue"]
    /\ UNCHANGED <<envVars, cfg, retryCount, wakeAt, cacheRead, joinedTo, reqPromise,
                   outcome, replayOf, tableVars, queueVars, histVars>>

\* request(), lines 130-138: executeRequest starts the exchange and its promise
\* is registered under the cache key.
Execute(c) ==
    /\ pc[c] = "rate"
    /\ ~GoesToQueue(c)
    /\ pc' = [pc EXCEPT ![c] = "fetch"]
    /\ reqPromise' = [reqPromise EXCEPT ![c] = [state |-> "pending", value |-> NoResult]]
    /\ pendingRequests' = IF Deduplicates(c)
                          THEN MapSet(pendingRequests, GenerateCacheKey(cfg[c]),
                                      [owner |-> c, promise |-> NoPromise])
                          ELSE pendingRequests
    /\ fetchCount' = [fetchCount EXCEPT ![c] = @ + 1]
    /\ sent' = CountSent(c)
    /\ hookLog' = [hookLog EXCEPT ![c] = Append(@, Exchange(@))]
    /\ UNCHANGED <<envVars, cfg, retryCount, wakeAt, cacheRead, joinedTo, outcome,
                   replayOf, cache, rateLimiters, queueVars, netFails, lastReply, lastStore,
                   cacheSeen, passLog, drained, replayed>>

\* ------------------------------------------------------- executeRequest()
SmartFetchErrors == {"SmartFetchError", "NetworkError", "TimeoutError", "AbortError",
                     "ValidationError", "RateLimitError"}

\* errors/index.ts, lines 3-16: the errors of the library hold the request
\* configuration they were constructed with; other errors have no such field.
CarriesConfig(result) == result.kind \in SmartFetchErrors

\* What the transport may do with one exchange.
NoReply == [kind |-> "none", data |-> 0]
OkReplies == [kind : {"ok"}, data : Data]
NetworkFailure == [kind |-> "neterr", data |-> 0]

\* The other ways an attempt ends: the caller's signal aborts it, the timer of
\* createAbortController fires, the transport reports a timeout of its own, the
\* status fails validateStatus, or the schema rejects the payload.
HttpStatuses == {404, 503}
CallerAbort == [kind |-> "abort", data |-> 0]
TimerFired == [kind |-> "timeout", data |-> 0]
TransportTimeout == [kind |-> "nettimeout", data |-> 0]
StatusReplies == [kind : {"status"}, data : HttpStatuses]
SchemaRejects == [kind |-> "invalid", data |-> 0]
FailedReplies ==
    {NetworkFailure, CallerAbort, TimerFired, TransportTimeout, SchemaRejects}
        \cup StatusReplies

\* The error the catch block of executeRequest receives for a failed attempt:
\* fetch rejects with a plain error object or, aborted, with the abort exception;
\* lines 214-218 and 234 throw the library's own errors.
Caught(reply) ==
    CASE reply.kind \in {"abort", "timeout"} -> DomAbortError
      [] reply.kind = "nettimeout" ->
             [RawError("TypeError", 0) EXCEPT !.message = "network timeout"]
      [] reply.kind = "status" -> RawError("SmartFetchError", reply.data)
      [] reply.kind = "invalid" -> RawError("ValidationError", 0)
      [] OTHER -> RawError("TypeError", 0)

RethrownUnlessAbort(error) ==
    IF MessageHasTimeout(error.message) THEN Failure("TimeoutError") ELSE NoResult

\* executeRequest, lines 254-261: the errors rethrown before the retry logic.
Rethrown(error) ==
    IF error.name = "AbortError" THEN Failure("AbortError")
    ELSE IF MessageHasTimeout(error.message) THEN Failure("TimeoutError")
    ELSE NoResult

\* executeRequest, lines 273-281: what is thrown when the attempt is not retried.
Thrown(error) ==
    IF error.cls \in SmartFetchErrors THEN Failure(error.cls) ELSE Failure("NetworkError")

\* executeRequest, lines 208-250: the exchange succeeded; the response is built
\* and written to the cache, and the promise of executeRequest is fulfilled.
FetchSucceeds(c, reply) ==
    /\ pc[c] = "fetch"
    /\ reply.kind = "ok"
    /\ LET k == GenerateCacheKey(cfg[c])
           response == [Response(reply.data, retryCount[c], FALSE) EXCEPT
                           !.status = ReplyStatus(reply)]
           entry == CacheEntry(reply.data, now, cfg[c].cache.ttl)
       IN  /\ reqPromise' = [reqPromise EXCEPT ![c] =
                                 [state |-> "fulfilled", value |-> response]]
           /\ outcome' = [outcome EXCEPT ![c] = response]
           /\ IF cfg[c].cache.on
              THEN /\ cache' = MapSet(cache, k, entry)
                   /\ lastStore' = MapSet(lastStore, k, Populated(entry, response))
              ELSE UNCHANGED <<cache, lastStore>>
    /\ pc' = [pc EXCEPT ![c] = "post"]
    /\ lastReply' = [lastReply EXCEPT ![c] = reply]
    /\ UNCHANGED hookLog
    /\ UNCHANGED <<envVars, cfg, retryCount, wakeAt, cacheRead, joinedTo, replayOf,
                   pendingRequests, rateLimiters, queueVars, fetchCount, netFails,
                   cacheSeen, passLog, sent, drained, replayed>>

\* executeRequest, lines 251-282, for the error caught: it is rethrown as an
\* abort or a timeout, or the attempt is retried after the backoff delay, or the
\* promise of executeRequest is rejected with the wrapped error.
AttemptFails(c, error) ==
    LET rc == GetRetryConfig(cfg[c])
        thrown == IF Rethrown(error) # NoResult THEN Rethrown(error) ELSE Thrown(error)
    IN  IF Rethrown(error) = NoResult /\ rc.on /\ ShouldRetry(error, retryCount[c], rc)
        THEN /\ wakeAt' = [wakeAt EXCEPT ![c] =
                               now + CalculateRetryDelay(retryCount[c], rc)]
             /\ pc' = [pc EXCEPT ![c] = "backoff"]
             /\ UNCHANGED <<reqPromise, outcome>>
        ELSE /\ reqPromise' = [reqPromise EXCEPT ![c] =
                                   [state |-> "rejected", value |-> thrown]]
             /\ outcome' = [outcome EXCEPT ![c] = thrown]
             /\ pc' = [pc EXCEPT ![c] = "failed"]
             /\ UNCHANGED wakeAt

\* executeRequest, lines 238-250 and 251-282, when the backend's storage throws on
\* the write of cacheResponse. The memory backend has nothing that throws. The
\* indexedDB adapter catches the error (set, lines 242-249) and the attempt
\* succeeds without an entry. The localStorage adapter clears its entries and
\* writes again outside any try (set, lines 167-176): when that write throws too,
\* the rejection reaches the catch block of executeRequest.
QuotaError == RawError("QuotaExceededError", 0)

StoreFails(c, reply, again) ==
    /\ pc[c] = "fetch"
    /\ reply.kind = "ok"
    /\ cfg[c].cache.on
    /\ cfg[c].cache.strategy \in {"localStorage", "indexedDB"}
    /\ again => cfg[c].cache.strategy = "localStorage"
    /\ LET k == GenerateCacheKey(cfg[c])
           response == [Response(reply.data, retryCount[c], FALSE) EXCEPT
                           !.status = ReplyStatus(reply)]
           entry == CacheEntry(reply.data, now, cfg[c].cache.ttl)
       IN  /\ cache' = IF cfg[c].cache.strategy = "indexedDB" THEN cache
                       ELSE IF again THEN EmptyMap
                       ELSE MapSet(EmptyMap, k, entry)
           /\ lastStore' = IF cfg[c].cache.strategy = "indexedDB" THEN lastStore
                           ELSE IF again THEN EmptyMap
                           ELSE MapSet(EmptyMap, k, Populated(entry, response))
           /\ IF again
              THEN AttemptFails(c, QuotaError)
              ELSE /\ reqPromise' = [reqPromise EXCEPT ![c] =
                                         [state |-> "fulfilled", value |-> response]]
                   /\ outcome' = [outcome EXCEPT ![c] = response]
                   /\ pc' = [pc EXCEPT ![c] = "post"]
                   /\ UNCHANGED wakeAt
    /\ lastReply' = [lastReply EXCEPT ![c] = reply]
    /\ UNCHANGED hookLog
    /\ UNCHANGED <<envVars, cfg, retryCount, cacheRead, joinedTo, replayOf,
                   pendingRequests, rateLimiters, queueVars, fetchCount, netFails,
                   cacheSeen, passLog, sent, drained, replayed>>

FetchFailsAndCaches(c, reply) ==
    /\ pc[c] = "fetch"
    /\ reply.kind # "ok"
    /\ AttemptFails(c, Caught(reply))
    /\ netFails' = [netFails EXCEPT ![c] = @ + 1]
    /\ lastReply' = [lastReply EXCEPT ![c] = reply]
    /\ UNCHANGED hookLog
    /\ cache' = IF cfg[c].cache.on
                THEN MapSet(cache, GenerateCacheKey(cfg[c]),
                            CacheEntry(reply.data, now, cfg[c].cache.ttl))
                ELSE cache
    /\ UNCHANGED <<envVars, cfg, retryCount, cacheRead, joinedTo, replayOf,
                   pendingRequests, rateLimiters, queueVars, fetchCount, lastStore,
                   cacheSeen, passLog, sent, drained, replayed>>

\* executeRequest, lines 251-282: the attempt failed; the attempt is retried
\* after the backoff delay, or the promise of executeRequest is rejected.
FetchFails(c, reply) ==
    /\ pc[c] = "fetch"
    /\ reply.kind # "ok"
    /\ AttemptFails(c, Caught(reply))
    /\ netFails' = [netFails EXCEPT ![c] = @ + 1]
    /\ lastReply' = [lastReply EXCEPT ![c] = reply]
    /\ UNCHANGED hookLog
    /\ UNCHANGED <<envVars, cfg, retryCount, cacheRead, joinedTo, replayOf, tableVars,
                   queueVars, fetchCount, lastStore, cacheSeen, passLog, sent, drained,
                   replayed>>

\* executeRequest, lines 269-270 and 182-208: the backoff timer fired and the
\* next attempt starts its exchange.
AfterBackoff(c) ==
    /\ pc[c] = "backoff"
    /\ now >= wakeAt[c]
    /\ retryCount' = [retryCount EXCEPT ![c] = @ + 1]
    /\ fetchCount' = [fetchCount EXCEPT ![c] = @ + 1]
    /\ sent' = CountSent(c)
    /\ pc' = [pc EXCEPT ![c] = "fetch"]
    /\ hookLog' = [hookLog EXCEPT ![c] = Append(@, Exchange(@))]
    /\ UNCHANGED <<envVars, cfg, wakeAt, cacheRead, joinedTo, reqPromise, outcome,
                   replayOf, tableVars, queueVars, netFails, lastReply, lastStore, cacheSeen,
                   passLog, drained, replayed>>

\* ------------------------------------------------------- request(), the end
MarkReplayed(c, result) ==
    IF replayOf[c].entry # 0 /\ result.ok
    THEN [replayed EXCEPT ![replayOf[c].entry] = TRUE]
    ELSE replayed

\* request(), lines 140-157: response interceptors and post-hooks have run, the
\* pending entry of the key is deleted and the response returned.
AfterPostHooks(c) ==
    /\ pc[c] = "post"
    /\ outcome' = [outcome EXCEPT ![c].hooked = @ + 1]
    /\ pendingRequests' = IF Deduplicates(c)
                          THEN MapDelete(pendingRequests, GenerateCacheKey(cfg[c]))
                          ELSE pendingRequests
    /\ replayed' = MarkReplayed(c, outcome[c])
    /\ pc' = [pc EXCEPT ![c] = "done"]
    /\ hookLog' = [hookLog EXCEPT ![c] = @ \o PostProcess]
    /\ UNCHANGED <<envVars, cfg, retryCount, wakeAt, cacheRead, joinedTo, reqPromise,
                   replayOf, cache, rateLimiters, queueVars, fetchCount, netFails, lastReply,
                   lastStore, cacheSeen, passLog, sent, drained>>

\* request(), lines 158-174: the error interceptors and the middleware error
\* hooks have run and the error is thrown to the caller.
AfterErrorHooks(c) ==
    /\ pc[c] = "failed"
    /\ outcome' = [outcome EXCEPT ![c].hooked = @ + 1]
    /\ pc' = [pc EXCEPT ![c] = "done"]
    /\ UNCHANGED <<envVars, cfg, retryCount, wakeAt, cacheRead, joinedTo, reqPromise,
                   replayOf, tableVars, queueVars, histVars>>

\* request(), lines 161-170: the client has a hook on the error path.
HasErrorHook ==
    \/ \E i \in 1..Len(client.responseInterceptors) : client.responseInterceptors[i].handlesError
    \/ \E i \in 1..Len(client.middleware) : client.middleware[i].error

ReturnedIfResponse(value) == value

\* request(), line 172: whatever the error hooks returned is thrown, so the
\* caller's promise rejects with it.
ThrownToCaller(value) == [value EXCEPT !.ok = FALSE]

\* request(), lines 158-174: an error hook returns a value of its own in place
\* of the error it was given, and request() throws that value.
ErrorHooksReturn(c, value) ==
    /\ pc[c] = "failed"
    /\ HasErrorHook
    /\ outcome' = [outcome EXCEPT ![c] = ThrownToCaller([value EXCEPT !.hooked = outcome[c].hooked + 1])]
    /\ pc' = [pc EXCEPT ![c] = "done"]
    /\ UNCHANGED <<envVars, cfg, retryCount, wakeAt, cacheRead, joinedTo, reqPromise,
                   replayOf, tableVars, queueVars, histVars>>

JoinedSettlesOnSuccess(c) ==
    /\ pc[c] = "joined"
    /\ reqPromise[joinedTo[c]].state = "fulfilled"
    /\ outcome' = [outcome EXCEPT ![c] = reqPromise[joinedTo[c]].value]
    /\ replayed' = MarkReplayed(c, reqPromise[joinedTo[c]].value)
    /\ pc' = [pc EXCEPT ![c] = "done"]
    /\ UNCHANGED <<envVars, cfg, retryCount, wakeAt, cacheRead, joinedTo, reqPromise,
                   replayOf, tableVars, queueVars, fetchCount, netFails, lastReply, hookLog, lastStore,
                   cacheSeen, passLog, sent, drained>>

\* request(), line 115: the promise handed out by the dedup check settles, and
\* the joined caller's promise settles with it.
JoinedSettles(c) ==
    /\ pc[c] = "joined"
    /\ reqPromise[joinedTo[c]].state \in {"fulfilled", "rejected"}
    /\ outcome' = [outcome EXCEPT ![c] = reqPromise[joinedTo[c]].value]
    /\ replayed' = MarkReplayed(c, reqPromise[joinedTo[c]].value)
    /\ pc' = [pc EXCEPT ![c] = "done"]
    /\ UNCHANGED <<envVars, cfg, retryCount, wakeAt, cacheRead, joinedTo, reqPromise,
                   replayOf, tableVars, queueVars, fetchCount, netFails, lastReply, hookLog, lastStore,
                   cacheSeen, passLog, sent, drained>>

\* The promise of a finished call stays in place while a joined caller awaits it.
Held(c) == \E j \in Calls : j # c /\ pc[j] = "joined" /\ joinedTo[j] = c

\* The caller has taken the result of a finished call and the slot is free again;
\* a pending entry the call left behind keeps its settled promise.
Release(c, nextPc, nextCfg, nextReplay) ==
    /\ pc[c] = "done"
    /\ ~Held(c)
    /\ pendingRequests' =
           [k \in DOMAIN pendingRequests |->
               IF pendingRequests[k].owner = c
               THEN [owner |-> 0, promise |-> reqPromise[c]]
               ELSE pendingRequests[k]]
    /\ pc' = [pc EXCEPT ![c] = nextPc]
    /\ cfg' = [cfg EXCEPT ![c] = nextCfg]
    /\ retryCount' = [retryCount EXCEPT ![c] = 0]
    /\ wakeAt' = [wakeAt EXCEPT ![c] = 0]
    /\ cacheRead' = [cacheRead EXCEPT ![c] = NoEntry]
    /\ joinedTo' = [joinedTo EXCEPT ![c] = 0]
    /\ reqPromise' = [reqPromise EXCEPT ![c] = NoPromise]
    /\ outcome' = [outcome EXCEPT ![c] = NoResult]
    /\ replayOf' = [replayOf EXCEPT ![c] = nextReplay]
    /\ fetchCount' = [fetchCount EXCEPT ![c] = 0]
    /\ netFails' = [netFails EXCEPT ![c] = 0]
    /\ lastReply' = [lastReply EXCEPT ![c] = NoReply]
    /\ hookLog' = [hookLog EXCEPT ![c] = <<>>]
    /\ cacheSeen' = [cacheSeen EXCEPT ![c] = NotSeen]

\* A caller of the client receives the result of request().
Return(c) ==
    /\ replayOf[c].runner = 0
    /\ Release(c, "idle", NoConfig, NotReplay)
    /\ UNCHANGED <<envVars, cache, rateLimiters, queueVars, lastStore, passLog, sent,
                   drained, replayed>>

\* A caller of the client calls request(config).
Request(c, config) ==
    /\ Begin(c, config, 0, 0)
    /\ UNCHANGED <<envVars, tableVars, queueVars, histVars>>

\* Time passes.
Tick ==
    /\ now < MaxTime
    /\ now' = now + 1
    /\ UNCHANGED <<online, client, callVars, tableVars, queueVars, histVars>>

\* ------------------------------------------------------- offline queue
Runners == 1..MaxEntries

NoDrain == [pc |-> "idle", entries |-> <<>>, i |-> 0]
NoRunner == [state |-> "free", entries |-> <<>>, i |-> 0, call |-> 0]
FreeRunner(r) == runners[r].state = "free"
LowestFree(r) == FreeRunner(r) /\ \A q \in Runners : q < r => ~FreeRunner(q)

\* OfflineQueue.enqueue, lines 50-55.
QueueEntry(id, config) ==
    [id |-> id, config |-> config, timestamp |-> now, retryCount |-> 0]

InQueue(id) == \E j \in 1..Len(queue) : queue[j].id = id
Stored(id) == queue[CHOOSE j \in 1..Len(queue) : queue[j].id = id]

\* db.delete(storeName, id) and db.put(storeName, entry) on the store.
DbDelete(store, id) == SelectSeq(store, LAMBDA e : e.id # id)
DbPut(store, entry) ==
    [j \in 1..Len(store) |-> IF store[j].id = entry.id THEN entry ELSE store[j]]

\* The stored configuration of an entry as the argument of request().
AsRequest(config) ==
    [url |-> config.url, method |-> config.method, params |-> config.params,
     body |-> config.body, deduplicate |-> {config.deduplicate},
     offlineQueueable |-> {config.offlineQueueable}, cache |-> {config.cache},
     retry |-> {config.retry}, rateLimit |-> {config.rateLimit}]

\* OfflineQueue.enqueue and request(), lines 125-126: the entry is stored and the
\* call fails with the queued error.
Enqueued(c) ==
    /\ pc[c] = "enqueue"
    /\ queue' = Append(queue, QueueEntry(nextId, cfg[c]))
    /\ nextId' = nextId + 1
    /\ outcome' = [outcome EXCEPT ![c] = QueuedFailure]
    /\ pc' = [pc EXCEPT ![c] = "failed"]
    /\ drained' = [drained EXCEPT ![nextId] = IF drain.pc = "loop" THEN 1 ELSE 0]
    /\ UNCHANGED <<envVars, cfg, retryCount, wakeAt, cacheRead, joinedTo, reqPromise,
                   replayOf, tableVars, isProcessing, drain, runners, fetchCount,
                   netFails, lastReply, hookLog, lastStore, cacheSeen, passLog, sent, replayed>>
    /\ UNCHANGED instances

\* navigator.onLine turns false.
GoOffline ==
    /\ online
    /\ online' = FALSE
    /\ UNCHANGED <<now, client, callVars, tableVars, queueVars, histVars>>

GoOnlineUnguarded ==
    /\ ~online
    /\ online' = TRUE
    /\ isProcessing' = TRUE
    /\ drain' = [pc |-> "getAll", entries |-> <<>>, i |-> 0]
    /\ UNCHANGED <<now, client, callVars, tableVars, queue, nextId, runners, histVars>>
    /\ UNCHANGED instances

\* The online event: setupOnlineListener calls processQueue, which returns at
\* once while a drain is running and otherwise starts one, up to its getAll.
GoOnline ==
    /\ ~online
    /\ online' = TRUE
    /\ IF isProcessing
       THEN UNCHANGED <<isProcessing, drain>>
       ELSE /\ isProcessing' = TRUE
            /\ drain' = [pc |-> "getAll", entries |-> <<>>, i |-> 0]
    /\ UNCHANGED <<now, client, callVars, tableVars, queue, nextId, runners, histVars>>
    /\ UNCHANGED instances

\* processQueue, lines 94-96 and 115-117: the entries of the store are read; with
\* none the drain ends.
DrainGetAll ==
    /\ drain.pc = "getAll"
    /\ IF queue = <<>>
       THEN /\ drain' = NoDrain
            /\ isProcessing' = FALSE
       ELSE /\ drain' = [pc |-> "loop", entries |-> queue, i |-> 1]
            /\ UNCHANGED isProcessing
    /\ drained' = [e \in 1..MaxEntries |->
                      IF InQueue(e) /\ drained[e] < MaxFetches
                      THEN drained[e] + 1 ELSE drained[e]]
    /\ UNCHANGED <<envVars, callVars, tableVars, queue, nextId, runners, fetchCount,
                   netFails, lastReply, hookLog, lastStore, cacheSeen, passLog, sent, replayed>>
    /\ UNCHANGED instances

\* processQueue, lines 96-117, one iteration: the listeners are notified, which
\* starts a processOfflineQueue whose read of the store is ordered before the
\* delete; the entry is deleted, or, when the delete fails, its retry count is
\* incremented and the entry dropped or stored again.  The delete of one entry
\* fails at most MaxDbFailures times.
DrainStep(dbFails) ==
    /\ drain.pc = "loop"
    /\ dbFails => drain.entries[drain.i].retryCount < MaxDbFailures
    /\ LET entry == drain.entries[drain.i]
           bumped == [entry EXCEPT !.retryCount = @ + 1]
           last == drain.i = Len(drain.entries)
       IN  /\ \E r \in Runners :
                  /\ LowestFree(r)
                  /\ runners' = [runners EXCEPT ![r] =
                         [state |-> "getAll", entries |-> queue, i |-> 1, call |-> 0]]
           /\ queue' = IF ~dbFails THEN DbDelete(queue, entry.id)
                       ELSE IF bumped.retryCount > 3 THEN DbDelete(queue, entry.id)
                       ELSE DbPut(queue, bumped)
           /\ drain' = IF last THEN NoDrain ELSE [drain EXCEPT !.i = @ + 1]
           /\ isProcessing' = ~last
    /\ UNCHANGED <<envVars, callVars, tableVars, nextId, histVars>>
    /\ UNCHANGED instances

\* processQueue, lines 92-117: the store throws while the drain runs, in getAll
\* or, after a failed delete, in the catch block of the loop (the listeners were
\* notified before it); the finally block clears the flag and the drain ends.
DrainThrows ==
    /\ drain.pc \in {"getAll", "loop"}
    /\ IF drain.pc = "getAll"
       THEN UNCHANGED runners
       ELSE \E r \in Runners :
                /\ LowestFree(r)
                /\ runners' = [runners EXCEPT ![r] =
                       [state |-> "getAll", entries |-> queue, i |-> 1, call |-> 0]]
    /\ drain' = NoDrain
    /\ isProcessing' = FALSE
    /\ UNCHANGED <<envVars, callVars, tableVars, queue, nextId, histVars>>
    /\ UNCHANGED instances

\* Several SmartFetch instances in one process: each constructs its own
\* OfflineQueue on the default database and store, with its own flag, its own
\* online listener and its own processOfflineQueue as listener.
Instances == 1..NInstances
NoInstance == [isProcessing |-> FALSE, drain |-> NoDrain, toReplay |-> {}, sent |-> {}]

\* The online event reaches the listener of every instance: each processQueue
\* returns at once or sets its flag and asks for the entries.
OnlineEvent ==
    /\ ~online
    /\ online' = TRUE
    /\ instances' = [i \in Instances |->
                         IF instances[i].isProcessing THEN instances[i]
                         ELSE [instances[i] EXCEPT
                                  !.isProcessing = TRUE,
                                  !.drain = [pc |-> "getAll", entries |-> <<>>, i |-> 0]]]
    /\ UNCHANGED <<now, client, callVars, tableVars, queue, nextId, isProcessing, drain,
                   runners, histVars>>

\* processQueue of instance i, lines 94-96 and 115-117: getAll answers.
InstanceGetAll(i) ==
    /\ instances[i].drain.pc = "getAll"
    /\ instances' = [instances EXCEPT ![i] =
                         IF queue = <<>>
                         THEN [@ EXCEPT !.drain = NoDrain, !.isProcessing = FALSE]
                         ELSE [@ EXCEPT !.drain = [pc |-> "loop", entries |-> queue, i |-> 1]]]
    /\ UNCHANGED <<envVars, callVars, tableVars, queue, nextId, isProcessing, drain,
                   runners, histVars>>

\* processQueue of instance i, lines 96-102, one iteration: the listener is
\* notified and the processOfflineQueue of instance i reads the store, then the
\* entry is deleted from the store (a delete of an entry already gone does
\* nothing).
InstanceDrainStep(i) ==
    /\ instances[i].drain.pc = "loop"
    /\ LET d == instances[i].drain
           last == d.i = Len(d.entries)
       IN  /\ instances' = [instances EXCEPT ![i] =
                   [@ EXCEPT !.toReplay = @ \cup {queue[j].id : j \in 1..Len(queue)},
                             !.drain = IF last THEN NoDrain ELSE [d EXCEPT !.i = @ + 1],
                             !.isProcessing = ~last]]
           /\ queue' = DbDelete(queue, d.entries[d.i].id)
    /\ UNCHANGED <<envVars, callVars, tableVars, nextId, isProcessing, drain, runners,
                   histVars>>

\* processOfflineQueue of instance i, lines 496-498, while online: request() is
\* called with the configuration of an entry it read, and one exchange is sent.
InstanceReplays(i, id) ==
    /\ online
    /\ id \in instances[i].toReplay
    /\ instances' = [instances EXCEPT ![i] =
                         [@ EXCEPT !.toReplay = @ \ {id}, !.sent = @ \cup {id}]]
    /\ UNCHANGED <<envVars, callVars, tableVars, queue, nextId, isProcessing, drain,
                   runners, histVars>>

\* processOfflineQueue, lines 494-498: getAll answered; the first entry is handed
\* to request(), or there is none.
ReplayStart(r) ==
    /\ runners[r].state = "getAll"
    /\ IF runners[r].entries = <<>>
       THEN /\ runners' = [runners EXCEPT ![r] = NoRunner]
            /\ UNCHANGED callVars
       ELSE \E c \in Calls :
                /\ Begin(c, AsRequest(runners[r].entries[1].config), r,
                         runners[r].entries[1].id)
                /\ runners' = [runners EXCEPT ![r].state = "replay", ![r].call = c]
    /\ UNCHANGED <<envVars, tableVars, queue, nextId, isProcessing, drain, histVars>>
    /\ UNCHANGED instances

\* processOfflineQueue, lines 496-502: request() returned or threw, the error is
\* logged, and the next entry of the list is handed to request().
ReplayReturns(r) ==
    /\ runners[r].state = "replay"
    /\ LET c == runners[r].call
           more == runners[r].i < Len(runners[r].entries)
           next == runners[r].entries[runners[r].i + 1]
       IN  IF more
           THEN /\ Release(c, "pre", MergeRequestConfig(AsRequest(next.config)),
                           [runner |-> r, entry |-> next.id])
                /\ runners' = [runners EXCEPT ![r].i = @ + 1]
           ELSE /\ Release(c, "idle", NoConfig, NotReplay)
                /\ runners' = [runners EXCEPT ![r] = NoRunner]
    /\ UNCHANGED <<envVars, cache, rateLimiters, queue, nextId, isProcessing, drain,
                   lastStore, passLog, sent, drained, replayed>>
    /\ UNCHANGED instances

\* ------------------------------------------------------- specifications

\* The state after new SmartFetch(config), with the connectivity given.
Start(config, connected) ==
    /\ online = connected
    /\ now = 0
    /\ client = config
    /\ pc = [c \in Calls |-> "idle"]
    /\ cfg = [c \in Calls |-> NoConfig]
    /\ retryCount = [c \in Calls |-> 0]
    /\ wakeAt = [c \in Calls |-> 0]
    /\ cacheRead = [c \in Calls |-> NoEntry]
    /\ joinedTo = [c \in Calls |-> 0]
    /\ reqPromise = [c \in Calls |-> NoPromise]
    /\ outcome = [c \in Calls |-> NoResult]
    /\ pendingRequests = EmptyMap
    /\ cache = EmptyMap
    /\ rateLimiters = EmptyMap
    /\ queue = <<>>
    /\ nextId = 1
    /\ isProcessing = FALSE
    /\ drain = NoDrain
    /\ runners = [r \in Runners |-> NoRunner]
    /\ instances = [i \in Instances |-> NoInstance]
    /\ replayOf = [c \in Calls |-> NotReplay]
    /\ fetchCount = [c \in Calls |-> 0]
    /\ netFails = [c \in Calls |-> 0]
    /\ lastReply = [c \in Calls |-> NoReply]
    /\ hookLog = [c \in Calls |-> <<>>]
    /\ lastStore = EmptyMap
    /\ cacheSeen = [c \in Calls |-> NotSeen]
    /\ passLog = [u \in Urls |-> [t \in 0..(MaxTime + Period) |-> 0]]
    /\ sent = [e \in 1..MaxEntries |-> 0]
    /\ drained = [e \in 1..MaxEntries |-> 0]
    /\ replayed = [e \in 1..MaxEntries |-> FALSE]

\* Deduplication: concurrent calls on a default client, the transport answering
\* or failing.
DedupInputs ==
    {[PlainRequest(u) EXCEPT !.deduplicate = d] : u \in Urls, d \in {{}, {FALSE}}}

InitDedup == Start(DefaultClient, TRUE)

NextDedup ==
    \/ \E c \in Calls, config \in DedupInputs : Request(c, config)
    \/ \E c \in Calls : AfterPreHooks(c)
    \/ \E c \in Calls : DedupHit(c)
    \/ \E c \in Calls : CheckRateLimit(c)
    \/ \E c \in Calls : Execute(c)
    \/ \E c \in Calls, reply \in OkReplies : FetchSucceeds(c, reply)
    \/ \E c \in Calls : FetchFails(c, NetworkFailure)
    \/ \E c \in Calls : AfterPostHooks(c)
    \/ \E c \in Calls : AfterErrorHooks(c)
    \/ \E c \in Calls : JoinedSettles(c)
    \/ \E c \in Calls : Return(c)

SpecDedup == InitDedup /\ [][NextDedup]_vars

\* Deduplication switched off: concurrent calls to one target on a default
\* client, deduplicated or not, the transport answering or failing or the
\* caller that started the exchange cancelling it.
BypassInputs == {[PlainRequest(1) EXCEPT !.deduplicate = d] : d \in {{}, {FALSE}}}

NextBypass ==
    \/ \E c \in Calls, config \in BypassInputs : Request(c, config)
    \/ \E c \in Calls : AfterPreHooks(c)
    \/ \E c \in Calls : DedupHit(c)
    \/ \E c \in Calls : CheckRateLimit(c)
    \/ \E c \in Calls : Execute(c)
    \/ \E c \in Calls : FetchSucceeds(c, [kind |-> "ok", data |-> 1])
    \/ \E c \in Calls, reply \in {NetworkFailure, CallerAbort} : FetchFails(c, reply)
    \/ \E c \in Calls : AfterPostHooks(c)
    \/ \E c \in Calls : AfterErrorHooks(c)
    \/ \E c \in Calls : JoinedSettles(c)
    \/ \E c \in Calls : Return(c)

SpecBypass == InitDedup /\ [][NextBypass]_vars

\* Retry: one call at a time that configures retry, with the default policy or with a custom
\* predicate that accepts every error; the transport answers or fails.
RetryPolicy(m, cond) ==
    [on |-> TRUE, maxRetries |-> m, delay |-> 1, backoff |-> 0, maxDelay |-> 0,
     cond |-> cond, retryOn |-> {}]

RetryInputs ==
    {[PlainRequest(u) EXCEPT !.retry = {RetryPolicy(m, cond)}] :
        u \in Urls, m \in 0..MaxRetries, cond \in {"none", "all"}}

InitRetry == Start(DefaultClient, TRUE)

NextRetry ==
    \/ \E config \in RetryInputs : Request(1, config)
    \/ AfterPreHooks(1)
    \/ DedupHit(1)
    \/ CheckRateLimit(1)
    \/ Execute(1)
    \/ \E reply \in OkReplies : FetchSucceeds(1, reply)
    \/ FetchFails(1, NetworkFailure)
    \/ AfterBackoff(1)
    \/ AfterPostHooks(1)
    \/ AfterErrorHooks(1)
    \/ JoinedSettles(1)
    \/ Return(1)
    \/ Tick

SpecRetry == InitRetry /\ [][NextRetry]_vars

\* Attempts: one call at a time to one target, not deduplicated, with a retry
\* policy (default, custom predicate accepting every error, or an allow-list of
\* statuses) and with or without caching; an attempt succeeds or ends in any of
\* the ways an attempt can fail.
RetryOnPolicy(m, statuses) == [RetryPolicy(m, "none") EXCEPT !.retryOn = statuses]

AttemptPolicies ==
    {RetryPolicy(m, cond) : m \in 0..MaxRetries, cond \in {"none", "all"}}
        \cup {RetryOnPolicy(m, {503}) : m \in 0..MaxRetries}

AttemptInputs ==
    {[PlainRequest(1) EXCEPT !.deduplicate = {FALSE}, !.retry = {policy},
                             !.cache = caching] :
        policy \in AttemptPolicies,
        caching \in {{}, {Caching(0, "memory")}}}

InitAttempt == Start(DefaultClient, TRUE)

NextAttempt ==
    \/ \E config \in AttemptInputs : Request(1, config)
    \/ AfterPreHooks(1)
    \/ CacheHit(1)
    \/ CheckRateLimit(1)
    \/ Execute(1)
    \/ \E reply \in OkReplies : FetchSucceeds(1, reply)
    \/ \E reply \in FailedReplies : FetchFails(1, reply)
    \/ AfterBackoff(1)
    \/ AfterPostHooks(1)
    \/ AfterErrorHooks(1)
    \/ Return(1)
    \/ Tick

SpecAttempt == InitAttempt /\ [][NextAttempt]_vars

\* Storage: a client that caches in one of the three backends, whose storage may
\* throw on a read or on a write (quota exceeded, storage unavailable); one call
\* at a time, not deduplicated, without retry or with a predicate that accepts
\* every error; the transport answers every exchange.
Backends == {"memory", "localStorage", "indexedDB"}

StorageInputs ==
    {[PlainRequest(u) EXCEPT !.deduplicate = {FALSE}, !.retry = retrying] :
        u \in Urls, retrying \in {{}, {RetryPolicy(1, "all")}}}

InitStorage ==
    \E backend \in Backends :
        Start([DefaultClient EXCEPT !.cache = Caching(0, backend)], TRUE)

NextStorage ==
    \/ \E config \in StorageInputs : Request(1, config)
    \/ AfterPreHooks(1)
    \/ CacheReadFails(1)
    \/ CacheHit(1)
    \/ CheckRateLimit(1)
    \/ Execute(1)
    \/ \E reply \in OkReplies : FetchSucceeds(1, reply)
    \/ \E reply \in OkReplies, again \in BOOLEAN : StoreFails(1, reply, again)
    \/ AfterBackoff(1)
    \/ AfterPostHooks(1)
    \/ AfterErrorHooks(1)
    \/ Return(1)
    \/ Tick

SpecStorage == InitStorage /\ [][NextStorage]_vars

\* Caching: one call after the other to one target, caching in the memory backend
\* with or without a ttl, or not caching; time passes, so entries expire.
Ttl == 2

CacheInputs ==
    {PlainRequest(1)}
        \cup {[PlainRequest(1) EXCEPT !.cache = {Caching(t, "memory")}] :
                 t \in {0, Ttl}}

InitCache == Start(DefaultClient, TRUE)

NextCache ==
    \/ \E config \in CacheInputs : Request(1, config)
    \/ AfterPreHooks(1)
    \/ DedupHit(1)
    \/ CacheHit(1)
    \/ CheckRateLimit(1)
    \/ Execute(1)
    \/ \E reply \in OkReplies : FetchSucceeds(1, reply)
    \/ FetchFails(1, NetworkFailure)
    \/ AfterPostHooks(1)
    \/ AfterErrorHooks(1)
    \/ JoinedSettles(1)
    \/ Return(1)
    \/ Tick

SpecCache == InitCache /\ [][NextCache]_vars

\* Rate limiting: a client-level limiter of R requests per Period, queueing or
\* rejecting; concurrent calls to one target that are not deduplicated and whose
\* exchanges succeed; time passes.
RateLimit(r, queueing) ==
    [on |-> TRUE, maxRequests |-> r, perMilliseconds |-> Period,
     queueRequests |-> queueing]

RateInputs == {[PlainRequest(1) EXCEPT !.deduplicate = {FALSE}]}

InitRate ==
    \E r \in 1..MaxRequests, queueing \in BOOLEAN :
        Start([DefaultClient EXCEPT !.rateLimit = RateLimit(r, queueing)], TRUE)

NextRate ==
    \/ \E c \in Calls, config \in RateInputs : Request(c, config)
    \/ \E c \in Calls : AfterPreHooks(c)
    \/ \E c \in Calls : CheckRateLimit(c)
    \/ \E c \in Calls : AfterLimitSleep(c)
    \/ \E c \in Calls : Execute(c)
    \/ \E c \in Calls : FetchSucceeds(c, [kind |-> "ok", data |-> 1])
    \/ \E c \in Calls : AfterPostHooks(c)
    \/ \E c \in Calls : AfterErrorHooks(c)
    \/ \E c \in Calls : Return(c)
    \/ Tick

SpecRate == InitRate /\ [][NextRate]_vars

\* Rejecting rate limit: the limiter of SpecRate without queueRequests; one call
\* after the other to one target, not deduplicated; time passes. The check is
\* synchronous in this mode (no await between reading the bucket and the throw
\* or the decrement).
InitReject ==
    \E r \in 1..MaxRequests :
        Start([DefaultClient EXCEPT !.rateLimit = RateLimit(r, FALSE)], TRUE)

NextReject ==
    \/ \E config \in RateInputs : Request(1, config)
    \/ AfterPreHooks(1)
    \/ CheckRateLimit(1)
    \/ Execute(1)
    \/ FetchSucceeds(1, [kind |-> "ok", data |-> 1])
    \/ AfterPostHooks(1)
    \/ AfterErrorHooks(1)
    \/ Return(1)
    \/ Tick

SpecReject == InitReject /\ [][NextReject]_vars

\* Queueing rate limit: the limiter of SpecRate with queueRequests; one call after
\* the other to one target, not deduplicated, issued up to MaxTime. The clock
\* runs on past MaxTime while a caller sleeps, and the timer of sleep() fires
\* once its time has come.
Asleep == \E c \in Calls : pc[c] \in {"limited", "backoff"} /\ wakeAt[c] > now

SleepTick ==
    /\ now >= MaxTime
    /\ Asleep
    /\ now' = now + 1
    /\ UNCHANGED <<online, client, callVars, tableVars, queueVars, histVars>>

RequestInTime(c, config) == now <= MaxTime /\ Request(c, config)

InitQueueing ==
    \E r \in 1..MaxRequests :
        Start([DefaultClient EXCEPT !.rateLimit = RateLimit(r, TRUE)], TRUE)

NextQueueing ==
    \/ \E config \in RateInputs : RequestInTime(1, config)
    \/ AfterPreHooks(1)
    \/ CheckRateLimit(1)
    \/ AfterLimitSleep(1)
    \/ Execute(1)
    \/ FetchSucceeds(1, [kind |-> "ok", data |-> 1])
    \/ AfterPostHooks(1)
    \/ Return(1)
    \/ Tick
    \/ SleepTick

SpecQueueing ==
    /\ InitQueueing
    /\ [][NextQueueing]_vars
    /\ WF_vars(Tick)
    /\ WF_vars(SleepTick)
    /\ WF_vars(AfterLimitSleep(1))

\* Backoff: one call after the other to one target, not deduplicated, retried on
\* every error up to MaxRetries + 1 times, with a base delay, a backoff
\* multiplier (or none) and a maximum delay (or none); issued up to MaxTime, and
\* the clock runs on while the call sleeps between attempts.
BackoffPolicy(d, b, m) ==
    [RetryPolicy(MaxRetries + 1, "all") EXCEPT !.delay = d, !.backoff = b, !.maxDelay = m]

BackoffInputs ==
    {[PlainRequest(1) EXCEPT !.deduplicate = {FALSE}, !.retry = {BackoffPolicy(d, b, m)}] :
        d \in {1, 2}, b \in {0, 1, 2}, m \in {0, 3}}

InitBackoff == Start(DefaultClient, TRUE)

NextBackoff ==
    \/ \E config \in BackoffInputs : RequestInTime(1, config)
    \/ AfterPreHooks(1)
    \/ CheckRateLimit(1)
    \/ Execute(1)
    \/ FetchSucceeds(1, [kind |-> "ok", data |-> 1])
    \/ FetchFails(1, NetworkFailure)
    \/ AfterBackoff(1)
    \/ AfterPostHooks(1)
    \/ AfterErrorHooks(1)
    \/ Return(1)
    \/ Tick
    \/ SleepTick

SpecBackoff == InitBackoff /\ [][NextBackoff]_vars

\* Mock mode: a client that caches and limits its rate, with mock mode on or off
\* and one mock registered for target 1, with or without a method; one call
\* after the other.
MockInputs == {PlainRequest(u) : u \in Urls}

InitMock ==
    \E mocking \in BOOLEAN, method \in {"", "GET", "POST"} :
        Start([DefaultClient EXCEPT !.mockMode = mocking,
                                    !.mockResponses = {MockConfig(1, method, 2)},
                                    !.cache = Caching(0, "memory"),
                                    !.rateLimit = RateLimit(1, FALSE)], TRUE)

NextMock ==
    \/ \E config \in MockInputs : Request(1, config)
    \/ MockHit(1)
    \/ AfterPreHooks(1)
    \/ CacheHit(1)
    \/ CheckRateLimit(1)
    \/ Execute(1)
    \/ FetchSucceeds(1, [kind |-> "ok", data |-> 1])
    \/ AfterPostHooks(1)
    \/ Return(1)
    \/ Tick

SpecMock == InitMock /\ [][NextMock]_vars

\* Hooks: a client with two middleware, two request interceptors and two
\* response interceptors, each defining its handlers or not; one call after the
\* other, not deduplicated; the exchange succeeds or fails.
HookInputs == {[PlainRequest(u) EXCEPT !.deduplicate = {FALSE}] : u \in Urls}

InitHooks ==
    \E pre1, post1, pre2, post2, on1, on2 \in BOOLEAN :
        Start([DefaultClient EXCEPT
                  !.middleware = <<Middleware("m1", pre1, post1, TRUE),
                                   Middleware("m2", pre2, post2, TRUE)>>,
                  !.requestInterceptors = <<Interceptor("q1", TRUE, FALSE),
                                            Interceptor("q2", on1, FALSE)>>,
                  !.responseInterceptors = <<Interceptor("r1", on2, TRUE),
                                             Interceptor("r2", TRUE, TRUE)>>], TRUE)

NextHooks ==
    \/ \E config \in HookInputs : Request(1, config)
    \/ AfterPreHooks(1)
    \/ CheckRateLimit(1)
    \/ Execute(1)
    \/ FetchSucceeds(1, [kind |-> "ok", data |-> 1])
    \/ FetchFails(1, NetworkFailure)
    \/ AfterPostHooks(1)
    \/ PreHookThrows(1)
    \/ AfterErrorHooks(1)
    \/ ErrorHooksReturn(1, Response(2, 0, FALSE))
    \/ Return(1)

SpecHooks == InitHooks /\ [][NextHooks]_vars

\* Offline queue: one caller's calls to one target, not deduplicated, on a client
\* whose offline queue is enabled or not, the requests queueable or not;
\* connectivity comes and goes, the store's delete may fail, the transport answers
\* or fails; the replays of a drain run next to the caller's calls.
OfflineInputs ==
    {[PlainRequest(1) EXCEPT !.deduplicate = {FALSE}, !.offlineQueueable = q] :
        q \in {{}, {FALSE}}}

InitOffline ==
    \E enabled \in BOOLEAN :
        Start([DefaultClient EXCEPT !.offlineQueueEnabled = enabled], TRUE)

NextOffline ==
    \/ \E config \in OfflineInputs : Request(1, config)
    \/ \E c \in Calls : AfterPreHooks(c)
    \/ \E c \in Calls : CheckRateLimit(c)
    \/ \E c \in Calls : ToOfflineQueue(c)
    \/ \E c \in Calls : Enqueued(c)
    \/ \E c \in Calls : Execute(c)
    \/ \E c \in Calls : FetchSucceeds(c, [kind |-> "ok", data |-> 1])
    \/ \E c \in Calls : FetchFails(c, NetworkFailure)
    \/ \E c \in Calls : AfterPostHooks(c)
    \/ \E c \in Calls : AfterErrorHooks(c)
    \/ \E c \in Calls : Return(c)
    \/ GoOffline
    \/ GoOnline
    \/ DrainGetAll
    \/ \E dbFails \in BOOLEAN : DrainStep(dbFails)
    \/ \E r \in Runners : ReplayStart(r)
    \/ \E r \in Runners : ReplayReturns(r)

SpecOffline == InitOffline /\ [][NextOffline]_vars

\* Going offline: concurrent calls on the same clients while connectivity is lost
\* and has not come back, so that no drain runs.
NextEnqueue ==
    \/ \E c \in Calls, config \in OfflineInputs : Request(c, config)
    \/ \E c \in Calls : AfterPreHooks(c)
    \/ \E c \in Calls : CheckRateLimit(c)
    \/ \E c \in Calls : ToOfflineQueue(c)
    \/ \E c \in Calls : Enqueued(c)
    \/ \E c \in Calls : Execute(c)
    \/ \E c \in Calls : FetchSucceeds(c, [kind |-> "ok", data |-> 1])
    \/ \E c \in Calls : FetchFails(c, NetworkFailure)
    \/ \E c \in Calls : AfterPostHooks(c)
    \/ \E c \in Calls : AfterErrorHooks(c)
    \/ \E c \in Calls : Return(c)
    \/ GoOffline

SpecEnqueue == InitOffline /\ [][NextEnqueue]_vars

\* Drains: one caller's calls to one target, not deduplicated, on a client whose
\* offline queue is enabled; connectivity comes and goes, the store may fail. The
\* replays the listeners start wait for their read of the store: their steps
\* leave isProcessing and drain as they are.
DrainInputs == {[PlainRequest(1) EXCEPT !.deduplicate = {FALSE}]}

InitDrain == Start([DefaultClient EXCEPT !.offlineQueueEnabled = TRUE], TRUE)

NextDrain ==
    \/ \E config \in DrainInputs : Request(1, config)
    \/ AfterPreHooks(1)
    \/ CheckRateLimit(1)
    \/ ToOfflineQueue(1)
    \/ Enqueued(1)
    \/ Execute(1)
    \/ FetchSucceeds(1, [kind |-> "ok", data |-> 1])
    \/ AfterPostHooks(1)
    \/ AfterErrorHooks(1)
    \/ Return(1)
    \/ GoOffline
    \/ GoOnline
    \/ DrainGetAll
    \/ \E dbFails \in BOOLEAN : DrainStep(dbFails)
    \/ DrainThrows

SpecDrain == InitDrain /\ [][NextDrain]_vars

\* Short cuts: concurrent deduplicated calls to one target on a client that
\* caches in memory and rejects above R requests per Period; the exchanges
\* succeed, all within one instant of the clock.
InitShortcut ==
    \E r \in 1..MaxRequests :
        Start([DefaultClient EXCEPT !.cache = Caching(Ttl, "memory"),
                                    !.rateLimit = RateLimit(r, FALSE)], TRUE)

NextShortcut ==
    \/ \E c \in Calls : Request(c, PlainRequest(1))
    \/ \E c \in Calls : AfterPreHooks(c)
    \/ \E c \in Calls : CacheHit(c)
    \/ \E c \in Calls : DedupHit(c)
    \/ \E c \in Calls : CheckRateLimit(c)
    \/ \E c \in Calls : Execute(c)
    \/ \E c \in Calls : FetchSucceeds(c, [kind |-> "ok", data |-> 1])
    \/ \E c \in Calls : AfterPostHooks(c)
    \/ \E c \in Calls : AfterErrorHooks(c)
    \/ \E c \in Calls : JoinedSettles(c)
    \/ \E c \in Calls : Return(c)

SpecShortcut == InitShortcut /\ [][NextShortcut]_vars

\* Termination: two callers' concurrent deduplicated calls to one target, retried on every
\* error or not, on a client whose limiter queues; issued before the clock
\* moves. The steps of a call, the transport and the timers are fair: each of
\* them ends.
LiveInputs == {[PlainRequest(1) EXCEPT !.retry = {RetryPolicy(m, "all")}] : m \in 0..1}

InitLive == Start([DefaultClient EXCEPT !.rateLimit = RateLimit(1, TRUE)], TRUE)

Step(c) ==
    \/ AfterPreHooks(c)
    \/ DedupHit(c)
    \/ CheckRateLimit(c)
    \/ AfterLimitSleep(c)
    \/ Execute(c)
    \/ FetchSucceeds(c, [kind |-> "ok", data |-> 1])
    \/ FetchFails(c, NetworkFailure)
    \/ AfterBackoff(c)
    \/ AfterPostHooks(c)
    \/ AfterErrorHooks(c)
    \/ JoinedSettles(c)

NextLive ==
    \/ \E c \in 1..2, config \in LiveInputs : now = 0 /\ Request(c, config)
    \/ \E c \in Calls : Step(c)
    \/ \E c \in Calls : Return(c)
    \/ Tick
    \/ SleepTick

SpecLive ==
    /\ InitLive
    /\ [][NextLive]_vars
    /\ \A c \in Calls : WF_vars(Step(c))
    /\ WF_vars(Tick)
    /\ WF_vars(SleepTick)

\* Instances: one caller's queueable calls to one target while offline fill the
\* store; connectivity comes and goes; every instance drains the store and
\* replays what its listener read.
NextInstances ==
    \/ \E config \in DrainInputs : Request(1, config)
    \/ AfterPreHooks(1)
    \/ CheckRateLimit(1)
    \/ ToOfflineQueue(1)
    \/ Enqueued(1)
    \/ Execute(1)
    \/ FetchSucceeds(1, [kind |-> "ok", data |-> 1])
    \/ AfterPostHooks(1)
    \/ AfterErrorHooks(1)
    \/ Return(1)
    \/ GoOffline
    \/ OnlineEvent
    \/ \E i \in Instances : InstanceGetAll(i)
    \/ \E i \in Instances : InstanceDrainStep(i)
    \/ \E i \in Instances, id \in 1..MaxEntries : InstanceReplays(i, id)

SpecInstances == InitDrain /\ [][NextInstances]_vars

\* ------------------------------------------------------- properties

SameFingerprint(c, d) ==
    /\ cfg[c].deduplicate
    /\ cfg[d].deduplicate
    /\ GenerateCacheKey(cfg[c]) = GenerateCacheKey(cfg[d])

\* C1: with deduplication enabled, two calls with the same fingerprint never
\* have a transport exchange in flight at the same instant.
C1_OneExchangePerFingerprint ==
    \A c, d \in Calls :
        (c # d /\ pc[c] = "fetch" /\ pc[d] = "fetch") => ~SameFingerprint(c, d)

\* C2: once the call that owns a pending entry has settled, on the success path
\* or on the failure path, the pending-request table no longer holds its entry,
\* and no caller is handed a promise that has already settled.
C2_PendingRemovedOnSettle ==
    /\ \A k \in DOMAIN pendingRequests :
           /\ pendingRequests[k].owner # 0
           /\ pc[pendingRequests[k].owner] # "done"
    /\ \A j \in Calls : pc[j] = "joined" => joinedTo[j] # j

\* C10: every error delivered to a caller of request() has passed through the
\* error-hook chain exactly once, deduplicated callers included.
C10_ErrorsHookedOnce ==
    \A c \in Calls : (pc[c] = "done" /\ ~outcome[c].ok) => outcome[c].hooked = 1

DefaultPolicy(c) ==
    /\ cfg[c].retry.on
    /\ cfg[c].retry.cond = "none"
    /\ cfg[c].retry.retryOn = {}

Owner(c) == pc[c] = "done" /\ joinedTo[c] = 0

\* C3: under the default retry policy with maxRetries = M, a call whose transport
\* failed k <= M times with a network failure is not given up, and when the
\* transport then succeeds the call succeeds with retryCount = k after k + 1
\* transport invocations.
C3_RetriesUntilSuccess ==
    \A c \in Calls : (Owner(c) /\ DefaultPolicy(c)) =>
        /\ outcome[c].ok =>
               /\ outcome[c].retryCount = netFails[c]
               /\ fetchCount[c] = netFails[c] + 1
        /\ ~outcome[c].ok => netFails[c] > cfg[c].retry.maxRetries

\* C4: with retry configured with maxRetries = M and a transport that fails on
\* every attempt, the caller receives the network-failure error after exactly
\* M + 1 transport invocations.
C4_GivesUpAfterMaxRetries ==
    \A c \in Calls :
        (Owner(c) /\ cfg[c].retry.on /\ outcome[c].kind = "NetworkError") =>
            fetchCount[c] = cfg[c].retry.maxRetries + 1

\* C5: a call with caching enabled that reads the cache while the response an
\* earlier identical request obtained is stored and unexpired performs no
\* transport exchange and returns that payload with cached = true.
C5_FreshEntryServedFromCache ==
    \A c \in Calls : cacheSeen[c].fresh =>
        /\ fetchCount[c] = 0
        /\ pc[c] \in {"cache", "done"}
        /\ pc[c] = "done" =>
               /\ outcome[c].ok
               /\ outcome[c].cached
               /\ outcome[c].data = cacheSeen[c].data

C5_Witness ==
    \E c \in Calls :
        /\ pc[c] = "done"
        /\ cfg[c].cache.ttl = Ttl
        /\ cacheSeen[c].fresh
        /\ outcome[c].cached
        /\ now > 0

RECURSIVE PassedBetween(_, _, _)
\* The calls that passed the rate-limit check of target u at the times from..to.
PassedBetween(u, from, to) ==
    IF from > to THEN 0 ELSE passLog[u][from] + PassedBetween(u, from + 1, to)

\* C6: with maxRequests = R per P ms, no more than R requests pass the rate-limit
\* check within one window of length P of a bucket, in queueing mode as in
\* rejecting mode and for any number of concurrent callers.
C6_AtMostRPerWindow ==
    \A u \in DOMAIN rateLimiters :
        LET from == rateLimiters[u].lastRefill
            to == IF from + Period - 1 < MaxTime THEN from + Period - 1 ELSE MaxTime
        IN  PassedBetween(u, from, to) <= client.rateLimit.maxRequests

C8_SentOncePerDrain ==
    \A id \in 1..MaxEntries : sent[id] <= drained[id]

\* C9: an entry leaves the offline queue only after its replay succeeded or when
\* its retry counter, incremented for a failed replay, exceeds 3.
C9_RemovedOnlyAfterReplay ==
    [][\A id \in 1..MaxEntries :
          (InQueue(id) /\ ~InQueue(id)')
              => (replayed'[id] \/ Stored(id).retryCount + 1 > 3)]_vars

\* The attempt of call c ends on this step the way `kind` says.
AttemptEnds(c, kind) == pc[c] = "fetch" /\ pc'[c] # "fetch" /\ lastReply'[c].kind = kind

\* The call's retry configuration would retry any error it is asked about.
AcceptsEveryError(c) ==
    /\ cfg[c].retry.on
    /\ cfg[c].retry.cond = "all"
    /\ retryCount[c] < cfg[c].retry.maxRetries

\* C11: an attempt ended by an abort rejects the call with the abort error at
\* once, leaves the cache as it was, and the call neither waits for a backoff nor
\* starts another exchange afterwards, whatever its retry configuration.
C11_AbortNeverRetried ==
    [][\A c \in Calls :
          /\ AttemptEnds(c, "abort") =>
                 /\ pc'[c] = "failed"
                 /\ outcome'[c].kind = "AbortError"
                 /\ cache' = cache
          /\ lastReply[c].kind = "abort" /\ lastReply'[c].kind = "abort" =>
                 /\ pc'[c] \notin {"backoff", "fetch"}
                 /\ fetchCount'[c] = fetchCount[c]
                 /\ cache' = cache]_vars

\* An aborted attempt of a call that caches and whose retry predicate accepts
\* every error, with retries left.
C11_Witness ==
    \E c \in Calls :
        /\ lastReply[c].kind = "abort"
        /\ pc[c] = "failed"
        /\ AcceptsEveryError(c)
        /\ cfg[c].cache.on

\* C12: an attempt ended by a response-validation failure rejects the call with
\* the validation error at once, whatever the retry configuration; it is not
\* retried.
C12_ValidationFailureIsTerminal ==
    [][\A c \in Calls :
          AttemptEnds(c, "invalid") =>
              pc'[c] = "failed" /\ outcome'[c].kind = "ValidationError"]_vars

RetriesLeft(c) == cfg[c].retry.on /\ retryCount[c] < cfg[c].retry.maxRetries

\* C13: under the default retry policy, an attempt that fails status validation
\* with a status >= 500 while retries are left is reattempted.
C13_ServerErrorRetriedByDefault ==
    [][\A c \in Calls :
          (AttemptEnds(c, "status") /\ lastReply'[c].data >= 500
              /\ DefaultPolicy(c) /\ RetriesLeft(c)) =>
              pc'[c] = "backoff"]_vars

\* C14: with a retry allow-list configured, an attempt that fails with a status
\* of the list while retries are left is retried.
C14_AllowListedStatusRetried ==
    [][\A c \in Calls :
          (AttemptEnds(c, "status") /\ cfg[c].retry.cond = "none"
              /\ lastReply'[c].data \in cfg[c].retry.retryOn /\ RetriesLeft(c)) =>
              pc'[c] = "backoff"]_vars

\* C15: under the default retry policy, an attempt that fails because the
\* request's own timeout fired while retries are left is reattempted.
C15_TimeoutRetriedByDefault ==
    [][\A c \in Calls :
          (AttemptEnds(c, "timeout") /\ DefaultPolicy(c) /\ RetriesLeft(c)) =>
              pc'[c] = "backoff"]_vars

\* The cache differs after this step by exactly the entry of call c's key, which
\* holds the payload of the reply that ended c's attempt.
WritesReply(c) ==
    LET k == GenerateCacheKey(cfg[c])
    IN  /\ MapHas(cache', k)
        /\ cache'[k].data = lastReply'[c].data
        /\ cache' = MapSet(cache, k, cache'[k])

\* The cache differs after this step by the removal of the expired entry that
\* call c's read found.
DropsExpired(c) ==
    LET k == GenerateCacheKey(cfg[c])
    IN  /\ pc[c] = "pre"
        /\ MapHas(cache, k)
        /\ IsExpired(cache[k])
        /\ cache' = MapDelete(cache, k)

\* C16: the cache changes only when an attempt ends with a response that passed
\* status and schema validation, by the entry holding that response (or when a
\* read drops an expired entry); an attempt that ends in a network failure, a
\* rejected status, a validation failure, a timeout or an abort leaves it as it was.
C16_OnlyValidatedResponsesCached ==
    [][/\ cache' # cache =>
              \E c \in Calls : (AttemptEnds(c, "ok") /\ WritesReply(c)) \/ DropsExpired(c)
       /\ \A c \in Calls :
              (pc[c] = "fetch" /\ pc'[c] # "fetch" /\ lastReply'[c].kind # "ok") =>
                  cache' = cache]_vars

\* A caching call whose first attempt failed and was retried, and whose next
\* attempt succeeded and stored its response.
C16_Witness ==
    \E c \in Calls :
        /\ pc[c] = "post"
        /\ cfg[c].cache.on
        /\ netFails[c] >= 1
        /\ lastReply[c].kind = "ok"
        /\ MapHas(cache, GenerateCacheKey(cfg[c]))
        /\ cache[GenerateCacheKey(cfg[c])].data = outcome[c].data

\* C17: whatever the storage of the cache backend does, an attempt that ends
\* with a valid response makes its call succeed with that response: the call
\* neither fails nor waits to repeat the exchange.
C17_StorageErrorsNeverFailRequest ==
    [][\A c \in Calls :
          AttemptEnds(c, "ok") => pc'[c] = "post" /\ outcome'[c].ok]_vars

\* Call c reads the cache on this step.
Reads(c) == pc[c] = "pre" /\ pc'[c] = "cache" /\ cfg[c].cache.on

\* C18: a read of an entry with a (positive) ttl t returns the entry and keeps
\* it when its age is below t, and returns absent and deletes it when its age is
\* above t; an entry leaves the cache only on a read of its key, never because
\* time passes.
C18_TtlBoundaryOnRead ==
    [][/\ \A c \in Calls :
              LET k == GenerateCacheKey(cfg[c])
                  age == now - cache[k].timestamp
              IN  (Reads(c) /\ MapHas(cache, k) /\ cache[k].ttl > 0) =>
                      /\ age < cache[k].ttl =>
                             cacheRead'[c] = cache[k] /\ cache' = cache
                      /\ age > cache[k].ttl =>
                             ~cacheRead'[c].present /\ cache' = MapDelete(cache, k)
       /\ \A k \in DOMAIN cache :
              ~MapHas(cache', k) =>
                  \E c \in Calls : Reads(c) /\ k = GenerateCacheKey(cfg[c])]_vars

\* A read has found the stored entry older than its ttl: the call sees no entry
\* and the entry is gone.
C18_Witness ==
    \E c \in Calls :
        LET k == GenerateCacheKey(cfg[c])
        IN  /\ pc[c] = "cache"
            /\ cfg[c].cache.on
            /\ MapHas(lastStore, k)
            /\ lastStore[k].ttl > 0
            /\ now - lastStore[k].timestamp > lastStore[k].ttl
            /\ ~cacheRead[c].present
            /\ ~MapHas(cache, k)

\* Call j was deduplicated onto the exchange of call o.
DeduplicatedOnto(j, o) == j # o /\ joinedTo[j] = o

\* C19: when the later of a deduplicated caller and the owner of the exchange
\* receives its result, both hold the same outcome, the response or the error as
\* it left the interceptors and hooks.
C19_DeduplicatedCallersAgree ==
    [][\A j, o \in Calls :
          (DeduplicatedOnto(j, o) /\ pc'[j] = "done" /\ pc'[o] = "done"
              /\ (pc[j] # "done" \/ pc[o] # "done")) =>
              outcome'[j] = outcome'[o]]_vars

\* Call c passes the rate-limit check on this step and finds the bucket of its
\* target without a token, no whole interval having elapsed since the last refill.
FindsNoToken(c) ==
    LET u == cfg[c].url
    IN  /\ pc[c] = "cache"
        /\ pc'[c] # "cache"
        /\ client.rateLimit.on
        /\ MapHas(rateLimiters, u)
        /\ rateLimiters[u].tokens < 1
        /\ now - rateLimiters[u].lastRefill < client.rateLimit.perMilliseconds

\* C20: without queueRequests, a call that finds no token fails at that very
\* step with a RateLimitError whose wait time is what is left of the interval
\* since the last refill, and a call that failed so has no exchange, then or later.
C20_RejectedWithWaitTime ==
    [][\A c \in Calls :
          /\ (FindsNoToken(c) /\ ~client.rateLimit.queueRequests) =>
                 /\ pc'[c] = "failed"
                 /\ outcome'[c].kind = "RateLimitError"
                 /\ outcome'[c].data =
                        client.rateLimit.perMilliseconds
                            - (now - rateLimiters[cfg[c].url].lastRefill)
                 /\ fetchCount'[c] = 0
          /\ outcome[c].kind = "RateLimitError" =>
                 /\ pc'[c] \notin {"rate", "fetch", "backoff", "post"}
                 /\ fetchCount'[c] = 0]_vars

\* A call rejected part-way through the interval: its error carries less than
\* the whole period, and no exchange was made for it.
C20_Witness ==
    \E c \in Calls :
        /\ pc[c] = "failed"
        /\ outcome[c].kind = "RateLimitError"
        /\ outcome[c].data > 0
        /\ outcome[c].data < client.rateLimit.perMilliseconds
        /\ fetchCount[c] = 0

\* C21: with queueRequests, a call that finds no token is not failed: it is put
\* to sleep until the interval of the last refill is over, no call ever holds a
\* RateLimitError, and every sleeping call goes on to the step after the check.
C21_QueuedCallProceeds ==
    /\ [][\A c \in Calls :
              (FindsNoToken(c) /\ client.rateLimit.queueRequests) =>
                  /\ pc'[c] = "limited"
                  /\ wakeAt'[c] = rateLimiters[cfg[c].url].lastRefill
                                      + client.rateLimit.perMilliseconds
                  /\ outcome'[c] = outcome[c]]_vars
    /\ \A c \in Calls :
           /\ [](outcome[c].kind # "RateLimitError")
           /\ (pc[c] = "limited") ~> (pc[c] = "rate")

\* A call that slept for the rest of the interval and then passed the check.
C21_Witness ==
    \E c \in Calls :
        /\ pc[c] = "rate"
        /\ client.rateLimit.queueRequests
        /\ wakeAt[c] > 0
        /\ now >= wakeAt[c]

\* Mock mode is on and a registered mock has the target of call c and either no
\* method or the method of call c.
HasMock(c) ==
    /\ client.mockMode
    /\ \E mock \in client.mockResponses :
           mock.url = cfg[c].url /\ mock.method \in {"", cfg[c].method}

\* C22: with mock mode on and a mock registered for its target and method, a
\* call leaves its hooks straight for its end with the mock's response; the
\* cache, the pending-request table and the rate-limiter buckets stay as they
\* were, no cache read is made and no exchange is started.
C22_MockShortCircuits ==
    [][\A c \in Calls :
          (pc[c] = "pre" /\ pc'[c] # "pre" /\ HasMock(c)) =>
              /\ pc'[c] = "done"
              /\ outcome'[c].ok
              /\ \E mock \in client.mockResponses :
                     mock.url = cfg[c].url /\ outcome'[c].data = mock.response
              /\ cache' = cache
              /\ cacheRead' = cacheRead
              /\ pendingRequests' = pendingRequests
              /\ rateLimiters' = rateLimiters
              /\ fetchCount'[c] = 0]_vars

\* A call answered by a mock that was registered without a method, on a client
\* whose cache and rate limiter are switched on.
C22_Witness ==
    \E c \in Calls :
        /\ pc[c] = "done"
        /\ HasMock(c)
        /\ \E mock \in client.mockResponses : mock.method = ""
        /\ client.cache.on
        /\ client.rateLimit.on
        /\ outcome[c].data = 2
        /\ fetchCount[c] = 0

\* The place of a stage in the order of the claim, the hooks registered for it
\* and whether a hook defines the handler of the stage.
StageRank(stage) ==
    CASE stage = "pre" -> 1 [] stage = "onRequest" -> 2 [] stage = "fetch" -> 3
      [] stage = "onResponse" -> 4 [] stage = "post" -> 5

RegisteredFor(stage) ==
    CASE stage \in {"pre", "post"} -> client.middleware
      [] stage = "onRequest" -> client.requestInterceptors
      [] stage = "onResponse" -> client.responseInterceptors

Defines(hook, stage) ==
    CASE stage = "pre" -> hook.pre [] stage = "post" -> hook.post [] OTHER -> hook.handles

Registration(stage, name) ==
    CHOOSE i \in 1..Len(RegisteredFor(stage)) : RegisteredFor(stage)[i].name = name

\* The hooks that ran before entry i of the log on the same value: the request
\* configuration up to the exchange, the response after it.
MadeBefore(log, i) ==
    LET before == SelectSeq(SubSeq(log, 1, i - 1),
                            LAMBDA e : /\ e.stage # "fetch"
                                       /\ (StageRank(e.stage) < 3)
                                              = (StageRank(log[i].stage) <= 3))
    IN  [k \in 1..Len(before) |-> before[k].hook]

\* C23: a call that went to the network and returned has run its hooks one
\* after the other in the order pre-hooks, request interceptors, exchange,
\* response interceptors, post-hooks; within a stage, every registered hook that
\* defines the handler ran once, in registration order; and every hook, and the
\* exchange, received the value the hook before it returned.
C23_HooksInOrder ==
    \A c \in Calls :
        (pc[c] = "done" /\ outcome[c].ok /\ fetchCount[c] = 1) =>
            LET log == hookLog[c]
            IN  /\ \A i, j \in 1..Len(log) :
                       i < j =>
                           /\ StageRank(log[i].stage) <= StageRank(log[j].stage)
                           /\ log[i].stage = log[j].stage =>
                                  Registration(log[i].stage, log[i].hook)
                                      < Registration(log[j].stage, log[j].hook)
                /\ \A stage \in {"pre", "onRequest", "onResponse", "post"} :
                       {log[i].hook : i \in {k \in 1..Len(log) : log[k].stage = stage}}
                           = {RegisteredFor(stage)[i].name :
                                 i \in {k \in 1..Len(RegisteredFor(stage)) :
                                            Defines(RegisteredFor(stage)[k], stage)}}
                /\ Cardinality({i \in 1..Len(log) : log[i].stage = "fetch"}) = 1
                /\ \A i \in 1..Len(log) : log[i].got = MadeBefore(log, i)

\* A call that returned from the network on a client where both middleware
\* define both hooks and every interceptor its handler.
C23_Witness ==
    \E c \in Calls :
        /\ pc[c] = "done"
        /\ outcome[c].ok
        /\ fetchCount[c] = 1
        /\ Len(hookLog[c]) = 9

RECURSIVE Power(_, _)
Power(b, n) == IF n = 0 THEN 1 ELSE b * Power(b, n - 1)

\* C25: the delay before reattempt n (counted from 0) with base delay d and
\* backoff multiplier b (2 when none is configured) is d * b^n when no maximum
\* delay is configured, and the smaller of d * b^n and m when maximum delay m is.
C25_RetryDelay ==
    [][\A c \in Calls :
          (pc[c] = "fetch" /\ pc'[c] = "backoff") =>
              LET d == cfg[c].retry.delay
                  b == IF cfg[c].retry.backoff = 0 THEN 2 ELSE cfg[c].retry.backoff
                  m == cfg[c].retry.maxDelay
                  n == retryCount[c]
              IN  /\ m = 0 => wakeAt'[c] - now = d * Power(b, n)
                  /\ m # 0 =>
                        /\ wakeAt'[c] - now <= m
                        /\ wakeAt'[c] - now <= d * Power(b, n)
                        /\ wakeAt'[c] - now \in {m, d * Power(b, n)}]_vars

C25_Witness ==
    \E c \in Calls :
        /\ pc[c] = "backoff"
        /\ retryCount[c] = MaxRetries
        /\ cfg[c].retry.backoff = 2
        /\ cfg[c].retry.maxDelay # 0
        /\ cfg[c].retry.maxDelay < cfg[c].retry.delay * Power(2, MaxRetries)
        /\ wakeAt[c] = now + cfg[c].retry.maxDelay

\* C26: every error delivered to a caller of request() carries the request
\* configuration, whichever step of the call produced it.
C26_ErrorsCarryConfig ==
    \A c \in Calls : (pc[c] = "done" /\ ~outcome[c].ok) => CarriesConfig(outcome[c])

Undeduplicated(c) == pc[c] # "idle" /\ ~cfg[c].deduplicate

\* C27: a request issued with deduplicate false is never handed the promise of
\* a pending request, has no entry in the pending-request table and no step of
\* it changes the table, no other caller is joined to it, and the response it
\* returns comes from a transport exchange of its own.
C27_NoDedupBypassesTable ==
    /\ [](\A c \in Calls :
             Undeduplicated(c) =>
                 /\ pc[c] # "joined"
                 /\ \A k \in DOMAIN pendingRequests : pendingRequests[k].owner # c
                 /\ \A j \in Calls : pc[j] = "joined" => joinedTo[j] # c
                 /\ (pc[c] = "done" /\ outcome[c].ok) => fetchCount[c] >= 1)
    /\ [][\A c \in Calls :
             (Undeduplicated(c) /\ pc'[c] # pc[c]) => pendingRequests' = pendingRequests]_vars

C27_Witness ==
    \E c, d \in Calls :
        /\ Undeduplicated(c)
        /\ pc[c] = "fetch"
        /\ pc[d] = "fetch"
        /\ cfg[d].deduplicate
        /\ GenerateCacheKey(cfg[c]) = GenerateCacheKey(cfg[d])
        /\ MapHas(pendingRequests, GenerateCacheKey(cfg[c]))
        /\ pendingRequests[GenerateCacheKey(cfg[c])].owner = d

NotQueueable(c) == pc[c] # "idle" /\ ~cfg[c].offlineQueueable

\* C28: a request issued with offlineQueueable false is never handed to the
\* offline queue and the queue never holds it, online or offline; from the
\* connectivity check it goes on to its transport exchange.
C28_NotQueueableNeverQueued ==
    /\ [](/\ \A c \in Calls : NotQueueable(c) => pc[c] # "enqueue"
          /\ \A j \in 1..Len(queue) : queue[j].config.offlineQueueable)
    /\ [][\A c \in Calls :
             (NotQueueable(c) /\ pc[c] = "rate" /\ pc'[c] # "rate")
                 => /\ pc'[c] = "fetch"
                    /\ fetchCount'[c] = fetchCount[c] + 1
                    /\ queue' = queue]_vars

C28_Witness ==
    \E c, d \in Calls :
        /\ ~online
        /\ client.offlineQueueEnabled
        /\ NotQueueable(c)
        /\ pc[c] = "fetch"
        /\ cfg[d].offlineQueueable
        /\ pc[d] = "enqueue"

Draining == drain # NoDrain

\* C29: the online event that arrives while a drain is running returns at once:
\* the running drain goes on as it was and the queue is not touched; the flag is
\* set exactly while a drain runs, so it is cleared when the drain ends, with
\* the last entry or with an error of the store.
C29_SingleDrain ==
    /\ [](isProcessing <=> Draining)
    /\ [][/\ (~online /\ online' /\ isProcessing)
                 => (drain' = drain /\ queue' = queue /\ isProcessing')
          /\ (Draining /\ ~Draining') => ~isProcessing']_vars

C29_Witness ==
    /\ ~isProcessing
    /\ ~Draining
    /\ online
    /\ InQueue(1)
    /\ Stored(1).retryCount = 0
    /\ drained[1] >= 1

\* The steps of a call before the rate-limit check and on its two short cuts.
BeforeLimiter == {"idle", "pre", "cache", "joined", "done"}

ShortCut(c) == outcome[c].cached \/ joinedTo[c] # 0

\* C30: a call answered from the cache or joined to a pending request got there
\* from the cache check without passing the rate-limit check, and no step of a
\* call on that way, nor its return, changes a rate-limiter bucket or takes a
\* token.
C30_ShortCutsTakeNoToken ==
    [][\A c \in Calls :
          /\ (pc'[c] = "joined" /\ pc[c] # "joined") => pc[c] = "cache"
          /\ (pc'[c] = "done" /\ pc[c] # "done" /\ ShortCut(c)')
                 => pc[c] \in {"cache", "joined"}
          /\ (pc'[c] = "cache" /\ pc[c] # "cache") => pc[c] = "pre"
          /\ (pc'[c] = "pre" /\ pc[c] # "pre") => pc[c] = "idle"
          /\ (pc[c] \in BeforeLimiter /\ pc'[c] \in BeforeLimiter /\ pc'[c] # pc[c])
                 => (rateLimiters' = rateLimiters /\ passLog' = passLog)]_vars

C30_Witness ==
    \E c \in Calls :
        /\ pc[c] = "done"
        /\ outcome[c].cached
        /\ MapHas(rateLimiters, cfg[c].url)
        /\ rateLimiters[cfg[c].url].tokens = 0

Terminal(c) == pc[c] = "done" /\ outcome[c].kind # "none"

\* C31: every call that was issued eventually ends, with a response returned or
\* with an error thrown, and its result stays what it is until the caller has
\* it; callers asleep in the queueing limiter and callers joined to a pending
\* request included.
C31_EveryCallEnds ==
    /\ \A c \in Calls : (pc[c] # "idle") ~> Terminal(c)
    /\ [][\A c \in Calls :
             (pc[c] = "done" /\ pc'[c] = "done") => outcome'[c] = outcome[c]]_vars

C31_Witness ==
    \E c, d \in Calls :
        /\ Terminal(c)
        /\ joinedTo[c] # 0
        /\ ~outcome[c].ok
        /\ pc[d] = "limited"

\* C32: with maxRetries M, whatever the retry predicate, a call makes at most
\* M + 1 transport exchanges, and each reattempt runs with the attempt counter
\* of the failed attempt plus one.
C32_AtMostMPlusOneExchanges ==
    /\ [](\A c \in Calls :
             pc[c] # "idle" =>
                 /\ fetchCount[c] <= GetRetryConfig(cfg[c]).maxRetries + 1
                 /\ pc[c] = "fetch" => fetchCount[c] = retryCount[c] + 1)
    /\ [][\A c \in Calls :
             (pc[c] = "backoff" /\ pc'[c] = "fetch")
                 => /\ retryCount'[c] = retryCount[c] + 1
                    /\ fetchCount'[c] = fetchCount[c] + 1]_vars

C32_Witness ==
    \E c \in Calls :
        /\ pc[c] = "done"
        /\ ~outcome[c].ok
        /\ cfg[c].retry.cond = "all"
        /\ cfg[c].retry.maxRetries = MaxRetries
        /\ fetchCount[c] = MaxRetries + 1

\* C33: the cancellation of one caller fails that caller's call only: a caller
\* deduplicated onto the exchange of another, whose own token has not fired,
\* never ends with the abort error of the caller that started the exchange.
C33_CancellationIsPerCaller ==
    \A j, o \in Calls :
        (DeduplicatedOnto(j, o) /\ pc[j] = "done" /\ lastReply[o] = CallerAbort)
            => outcome[j].kind # "AbortError"

\* C34: with several client instances on the default store, no queue entry is
\* sent by two of them.
C34_OneInstanceReplays ==
    \A i, j \in Instances :
        i # j => instances[i].sent \cap instances[j].sent = {}

\* Fingerprints: concurrent calls to one target that differ in method, in query
\* parameters and in body, on a default client; the transport answers.
KeyInputs ==
    {[PlainRequest(1) EXCEPT !.method = m, !.params = p, !.body = b] :
        m \in {"GET", "POST"}, p \in 0..1, b \in 0..1}

NextKeys ==
    \/ \E c \in Calls, config \in KeyInputs : Request(c, config)
    \/ \E c \in Calls : AfterPreHooks(c)
    \/ \E c \in Calls : DedupHit(c)
    \/ \E c \in Calls : CheckRateLimit(c)
    \/ \E c \in Calls : Execute(c)
    \/ \E c \in Calls : FetchSucceeds(c, [kind |-> "ok", data |-> 1])
    \/ \E c \in Calls : AfterPostHooks(c)
    \/ \E c \in Calls : JoinedSettles(c)
    \/ \E c \in Calls : Return(c)

SpecKeys == InitDedup /\ [][NextKeys]_vars

\* What the transport is asked for: the method, the target, the query
\* parameters and, for a method other than GET, the body.
SameRequest(a, b) ==
    /\ a.method = b.method
    /\ a.url = b.url
    /\ a.params = b.params
    /\ (a.method # "GET" => a.body = b.body)

\* C35: two requests that differ in method, target, query parameters or (for
\* a non-GET method) body have different fingerprints, so a call is never
\* deduplicated onto the exchange of a call that asks for something else.
C35_DistinctRequestsDistinctKeys ==
    \A j, o \in Calls :
        (pc[j] # "idle" /\ pc[o] # "idle" /\ ~SameRequest(cfg[j], cfg[o]))
            => /\ GenerateCacheKey(cfg[j]) # GenerateCacheKey(cfg[o])
               /\ ~DeduplicatedOnto(j, o)

\* Per-call retry switch: a client whose default retries every error once; one
\* call at a time that leaves retry unset or sets it to false; the transport
\* answers or fails.
OverrideInputs ==
    {[PlainRequest(1) EXCEPT !.deduplicate = {FALSE}, !.retry = r] :
        r \in {{}, {NoRetry}}}

InitOverride == Start([DefaultClient EXCEPT !.retry = RetryPolicy(1, "all")], TRUE)

NextOverride ==
    \/ \E config \in OverrideInputs : RequestInTime(1, config)
    \/ AfterPreHooks(1)
    \/ CheckRateLimit(1)
    \/ Execute(1)
    \/ FetchSucceeds(1, [kind |-> "ok", data |-> 1])
    \/ FetchFails(1, NetworkFailure)
    \/ AfterBackoff(1)
    \/ AfterPostHooks(1)
    \/ AfterErrorHooks(1)
    \/ Return(1)
    \/ Tick
    \/ SleepTick

SpecOverride == InitOverride /\ [][NextOverride]_vars

\* C36: a call whose own configuration sets retry to false is never
\* reattempted, even when the client default enables retry.
C36_RetryFalseOverridesDefault ==
    \A c \in Calls :
        (pc[c] # "idle" /\ client.retry.on /\ ~cfg[c].retry.on)
            => /\ fetchCount[c] <= 1
               /\ pc[c] # "backoff"

\* Bucket: the limiter of SpecRate, queueing or rejecting; two callers whose
\* checks of one target interleave; time passes.
NextBucket ==
    \/ \E c \in 1..2, config \in RateInputs : Request(c, config)
    \/ \E c \in Calls : AfterPreHooks(c)
    \/ \E c \in Calls : CheckRateLimit(c)
    \/ \E c \in Calls : AfterLimitSleep(c)
    \/ \E c \in Calls : Execute(c)
    \/ \E c \in Calls : FetchSucceeds(c, [kind |-> "ok", data |-> 1])
    \/ \E c \in Calls : AfterPostHooks(c)
    \/ \E c \in Calls : AfterErrorHooks(c)
    \/ \E c \in Calls : Return(c)
    \/ Tick

SpecBucket == InitRate /\ [][NextBucket]_vars

\* C37: under any interleaving of concurrent checks, queueing or rejecting,
\* the token count of every bucket stays between 0 and maxRequests.
C37_TokensInRange ==
    \A u \in DOMAIN rateLimiters :
        /\ rateLimiters[u].tokens >= 0
        /\ rateLimiters[u].tokens <= client.rateLimit.maxRequests

C37_Witness ==
    /\ client.rateLimit.maxRequests = MaxRequests
    /\ \E u \in DOMAIN rateLimiters :
           /\ rateLimiters[u].tokens = MaxRequests - 1
           /\ rateLimiters[u].lastRefill > 0
    /\ \E c, d \in Calls :
           /\ c # d
           /\ pc[c] = "limited"
           /\ pc[d] = "rate"

\* The step in which the check of call c ends in rejection.
Rejected(c) ==
    /\ pc[c] = "cache"
    /\ pc'[c] = "failed"
    /\ outcome'[c].kind = "RateLimitError"

\* C38: a check that ends in rejection leaves the bucket as it was, token
\* count and last-refill time, and reports a wait time greater than 0 and at
\* most the interval.
C38_RejectionLeavesBucket ==
    [][\A c \in Calls :
          Rejected(c) =>
              /\ MapHas(rateLimiters, cfg[c].url)
              /\ rateLimiters' = rateLimiters
              /\ outcome'[c].data > 0
              /\ outcome'[c].data <= client.rateLimit.perMilliseconds]_vars

C38_Witness ==
    \E c \in Calls :
        /\ pc[c] = "failed"
        /\ outcome[c].kind = "RateLimitError"
        /\ outcome[c].data = 1
        /\ MapHas(rateLimiters, cfg[c].url)
        /\ rateLimiters[cfg[c].url].tokens = 0
        /\ rateLimiters[cfg[c].url].lastRefill = now - (Period - 1)
        /\ rateLimiters[cfg[c].url].lastRefill > 0

\* addMock, lines 552-555: this.mockResponses.set(key, mock) with the url as
\* the key; a mock registered under the same url is replaced.
AddMock(mock) ==
    /\ client' = [client EXCEPT
                     !.mockResponses = {m \in @ : m.url # mock.url} \cup {mock}]
    /\ UNCHANGED <<online, now, callVars, tableVars, queueVars, histVars>>

\* Registering mocks: a client in mock mode that starts without mocks; mocks are
\* registered for the targets with a method and a response; one call after the
\* other with either method.
MockMethods == {"GET", "POST"}

RegisterInputs == {[PlainRequest(u) EXCEPT !.method = m] : u \in Urls, m \in MockMethods}

InitRegister == Start([DefaultClient EXCEPT !.mockMode = TRUE], TRUE)

NextRegister ==
    \/ \E u \in Urls, m \in MockMethods : AddMock(MockConfig(u, m, IF m = "GET" THEN 1 ELSE 2))
    \/ \E config \in RegisterInputs : Request(1, config)
    \/ MockHit(1)
    \/ AfterPreHooks(1)
    \/ CheckRateLimit(1)
    \/ Execute(1)
    \/ FetchSucceeds(1, [kind |-> "ok", data |-> 3])
    \/ AfterPostHooks(1)
    \/ Return(1)

SpecRegister == InitRegister /\ [][NextRegister]_vars

\* C39: registering a mock for a target with another method than that of a
\* mock already registered for the target keeps the earlier mock, so a request
\* with the earlier method is still answered by it.
C39_MocksOfOtherMethodsStay ==
    [][\A old \in client.mockResponses :
          \A new \in client'.mockResponses \ client.mockResponses :
              (new.url = old.url /\ new.method # old.method)
                  => /\ old \in client'.mockResponses
                     /\ \A config \in RegisterInputs :
                            MockMatches(old, config) =>
                                \E mock \in client'.mockResponses :
                                    /\ MockMatches(mock, config)
                                    /\ mock.response = old.response]_vars

\* Envelope: one call at a time to one target, cached in memory without expiry
\* or not cached; the transport answers with a payload and a status that
\* passes validateStatus; time passes.
OkStatuses == {200, 201}

EnvelopeReplies == [kind : {"ok"}, data : Data, status : OkStatuses]

EnvelopeInputs ==
    {PlainRequest(1), [PlainRequest(1) EXCEPT !.cache = {Caching(0, "memory")}]}

NextEnvelope ==
    \/ \E config \in EnvelopeInputs : Request(1, config)
    \/ AfterPreHooks(1)
    \/ CacheHit(1)
    \/ CheckRateLimit(1)
    \/ Execute(1)
    \/ \E reply \in EnvelopeReplies : FetchSucceeds(1, reply)
    \/ AfterPostHooks(1)
    \/ Return(1)
    \/ Tick

SpecEnvelope == InitCache /\ [][NextEnvelope]_vars

\* The step in which call c is answered from the cache.
AnsweredFromCache(c) ==
    /\ pc[c] = "cache"
    /\ pc'[c] = "done"
    /\ outcome'[c].cached

\* C40: a cache hit returns the payload and the status code of the response
\* that populated the entry.
C40_CacheHitReturnsEnvelope ==
    [][\A c \in Calls :
          AnsweredFromCache(c) =>
              LET k == GenerateCacheKey(cfg[c])
              IN  /\ MapHas(lastStore, k)
                  /\ outcome'[c].data = lastStore[k].data
                  /\ outcome'[c].status = lastStore[k].status]_vars

====
